---- MODULE Spec2Model ----
(***************************************************************************)
(* Voice identity store and identification engine of                       *)
(* scripts/voice_library.py: the sqlite-backed SqliteVoiceEmbeddingStore   *)
(* (models, samples and centroids tables) and the VoiceLibrary that keeps  *)
(* an in-memory centroid map on top of it.                                 *)
(*                                                                         *)
(* Conventions of the model                                                *)
(*  - Python None of a string-valued optional is the string NoneV; an      *)
(*    optional number is <<>> (None) or <<n>>.                             *)
(*  - A dict is a sequence of entries in insertion order (Python dicts     *)
(*    iterate in insertion order), names unique.                           *)
(*  - A table is the sequence of its rows in rowid order; AUTOINCREMENT    *)
(*    ids only ever grow, so an inserted row is appended.                  *)
(*  - An embedding is [num |-> <<integers>>, den |-> positive integer],    *)
(*    the exact rational vector num/den in lowest terms.  Floating-point   *)
(*    rounding (float32 blobs, float64 running means) is not modelled:     *)
(*    arithmetic on vectors is exact.  Scores (norms, cosine similarity,   *)
(*    temporal weights) are fixed-point numbers in units of 1/Milli.       *)
(*  - Times are in units of 0.1 ms, so that the "%.3f" rendering of the    *)
(*    sample key rounds.                                                   *)
(***************************************************************************)
EXTENDS Integers, Sequences, FiniteSets, TLC

VARIABLES
    db,     \* the sqlite database: [models, samples, centroids]
    plan,   \* row order sqlite uses for the two ORDER-less scans
    lib,    \* the VoiceLibrary instance: [backend, embeddings]
    last,   \* the last call and what it returned
    calls,  \* number of calls made so far
    txn,    \* the store call that runs statement by statement, if any
    pair,   \* two more VoiceLibrary instances on the store: [pc, embeddings]
    batch   \* the harvest run: its position, counters and printed progress

vars == <<db, plan, lib, last, calls, txn, pair, batch>>

NoneV == "None"

---------------------------------------------------------------------------
(* Bounds of the model *)

MaxSamples == 2      \* rows of voice_embedding_samples
MaxCount == 3        \* largest sample_count a running mean reaches
MaxCalls == 4        \* calls in one run
MaxEnrol == 2        \* enrolments before the identifications of a run

Milli == 10 * 100    \* fixed-point unit of scores

---------------------------------------------------------------------------
(* Program constants: voice_library.py 35-52 *)

BACKEND_PYANNOTE == "pyannote"
BACKEND_ECAPA == "ecapa-tdnn"
SUPPORTED_BACKENDS == {BACKEND_ECAPA, BACKEND_PYANNOTE}
DEFAULT_BACKEND == BACKEND_PYANNOTE

\* MODEL_META[backend]["embedding_dim"], scaled down (512 and 192 in the code)
ModelMetaDim(backend) == IF backend = BACKEND_PYANNOTE THEN 2 ELSE 1

\* MODEL_META[backend]["model_id"]
ModelMetaId(backend) ==
    IF backend = BACKEND_PYANNOTE THEN "pyannote/embedding"
    ELSE "speechbrain/spkrec-ecapa-voxceleb"

---------------------------------------------------------------------------
(* Inputs *)

Speakers == {"Matt", "Paul"}

\* ORDER BY speaker_name COLLATE NOCASE over the names of the model
NocaseOrder == <<"Matt", "Paul">>

\* what the embedding extractor can return (integer components)
RawVectors == {<<2>>, <<1, 0>>, <<0, 1>>}

SampleTypes == {"speaker", "sound_bite"}

---------------------------------------------------------------------------
(* Exact vector arithmetic *)

Abs(x) == IF x < 0 THEN -x ELSE x

RECURSIVE GCD(_, _)
GCD(a, b) == IF b = 0 THEN a ELSE GCD(b, a % b)

RECURSIVE SeqGCD(_, _)
SeqGCD(s, g) == IF s = <<>> THEN g ELSE SeqGCD(Tail(s), GCD(Abs(Head(s)), g))

\* num/den in lowest terms, den > 0
Normalize(num, den) ==
    LET g == SeqGCD(num, den)
    IN  [num |-> [i \in 1..Len(num) |-> num[i] \div g], den |-> den \div g]

\* np.asarray(x, dtype=np.float32) of an extractor output
AsVec(raw) == [num |-> raw, den |-> 1]

Dim(v) == Len(v.num)

VAdd(a, b) ==
    Normalize([i \in 1..Len(a.num) |-> a.num[i] * b.den + b.num[i] * a.den],
              a.den * b.den)

VScale(a, k) == Normalize([i \in 1..Len(a.num) |-> k * a.num[i]], a.den)

VDiv(a, k) == Normalize(a.num, a.den * k)

RECURSIVE VSum(_)
VSum(vs) == IF Len(vs) = 1 THEN vs[1] ELSE VAdd(vs[1], VSum(Tail(vs)))

\* np.mean(np.stack(vectors, axis=0), axis=0)
VMean(vs) == VDiv(VSum(vs), Len(vs))

Dot(a, b) ==
    LET RECURSIVE S(_)
        S(i) == IF i = 0 THEN 0 ELSE a[i] * b[i] + S(i - 1)
    IN  S(Len(a))

\* floor of the square root
ISqrt(n) ==
    LET RECURSIVE F(_, _)
        F(lo, hi) ==
            IF lo >= hi THEN lo
            ELSE LET mid == (lo + hi + 1) \div 2
                 IN  IF mid * mid <= n THEN F(mid, hi) ELSE F(lo, mid - 1)
    IN  F(0, IF n > 46340 THEN 46340 ELSE n)

\* float(np.linalg.norm(v)) in 1/Milli, for a vector of extractor output
Norm(v) == ISqrt(Dot(v.num, v.num) * Milli * Milli) \div v.den

---------------------------------------------------------------------------
(* Rendering of numbers, as str() and "%.3f" do it *)

Digit(d) ==
    CASE d = 0 -> "0" [] d = 1 -> "1" [] d = 2 -> "2" [] d = 3 -> "3"
      [] d = 4 -> "4" [] d = 5 -> "5" [] d = 6 -> "6" [] d = 7 -> "7"
      [] d = 8 -> "8" [] d = 9 -> "9"

RECURSIVE IntStr(_)
IntStr(n) == IF n < 10 THEN Digit(n) ELSE IntStr(n \div 10) \o Digit(n % 10)

\* f"{float(t):.3f}" of a time t given in units of 0.1 ms
TimeStr(t) ==
    LET ms == (t + 5) \div 10
        f == ms % 1000
    IN  IntStr(ms \div 1000) \o "." \o Digit(f \div 100)
            \o Digit((f \div 10) % 10) \o Digit(f % 10)

---------------------------------------------------------------------------
(* The clips add_speaker is called with: audio_path and the provenance    *)
(* keywords of one call                                                    *)

ClipA ==
    [audio_path |-> "samples/a.wav", file_path |-> NoneV,
     sample_type |-> NoneV, sample_date |-> "2023-01-01",
     voice_sample_id |-> <<>>, episode_id |-> <<>>, segment_idx |-> <<>>,
     start_time |-> <<>>, end_time |-> <<>>]

ClipB ==
    [audio_path |-> "episodes/7.mp3", file_path |-> "samples/b.wav",
     sample_type |-> "speaker", sample_date |-> "2024/01/01",
     voice_sample_id |-> <<3>>, episode_id |-> <<7>>, segment_idx |-> <<0>>,
     start_time |-> <<10000>>, end_time |-> <<25000>>]

ClipBite ==
    [audio_path |-> "sound_bites/c.wav", file_path |-> NoneV,
     sample_type |-> NoneV, sample_date |-> NoneV,
     voice_sample_id |-> <<>>, episode_id |-> <<>>, segment_idx |-> <<>>,
     start_time |-> <<>>, end_time |-> <<>>]

Clips == {ClipA, ClipB, ClipBite}

\* "sound_bites" in p, over the paths of the model
HasSoundBites(p) == p = "sound_bites/c.wav"

\* _normalize_sample_date over the date strings of the model
NormalizeSampleDate(sample_date) ==
    CASE sample_date = NoneV -> NoneV
      [] sample_date = "" -> NoneV
      [] sample_date = "2023-01-01" -> "2023-01-01"
      [] sample_date = "2024-01-01" -> "2024-01-01"
      [] sample_date = "2024/01/01" -> "2024-01-01"
      [] OTHER -> NoneV

\* _resolve_sample_type
ResolveSampleType(sample_type, audio_path, file_path) ==
    IF sample_type \in SampleTypes THEN sample_type
    ELSE IF (file_path # NoneV /\ file_path # "" /\ HasSoundBites(file_path))
            \/ HasSoundBites(audio_path)
         THEN "sound_bite"
         ELSE "speaker"

---------------------------------------------------------------------------
(* SqliteVoiceEmbeddingStore *)

EmptyDb == [models |-> <<>>, samples |-> <<>>, centroids |-> <<>>]

\* _pack_embedding_blob: the flattened array and its length
PackEmbeddingBlob(embedding) == <<embedding, Dim(embedding)>>

\* _unpack_embedding_blob: cut to dim when the blob is longer
UnpackEmbeddingBlob(blob, dim) ==
    IF dim # 0 /\ Dim(blob) > dim
    THEN [num |-> SubSeq(blob.num, 1, dim), den |-> blob.den]
    ELSE blob

HasModel(models, backend, dim) ==
    \E i \in 1..Len(models) :
        models[i].backend = backend /\ models[i].embedding_dim = dim

\* _model_row_id, the INSERT OR IGNORE: the unique key is
\* (backend, model_id, embedding_dim, dtype, version_tag), and model_id, dtype
\* and version_tag are functions of backend
EnsureModel(models, backend, dim) ==
    IF HasModel(models, backend, dim) THEN models
    ELSE Append(models, [backend |-> backend, model_id |-> ModelMetaId(backend),
                         embedding_dim |-> dim, is_active |-> TRUE])

\* _model_row_id, the SELECT id
ModelRowId(models, backend, dim) ==
    CHOOSE i \in 1..Len(models) :
        models[i].backend = backend /\ models[i].embedding_dim = dim

\* SELECT id FROM voice_embedding_models without its WHERE clause
ModelsOfAnyBackend(models, backend) == 1..Len(models)

\* ids of the models of one backend (SELECT id ... WHERE backend = ?)
BackendModels(models, backend) ==
    {i \in 1..Len(models) : models[i].backend = backend}

ActiveModels(models, backend) ==
    {i \in BackendModels(models, backend) : models[i].is_active}

\* _sample_key
SampleKey(backend, speaker_name, sample_type, file_path, episode_id, segment_idx, start_time, end_time, voice_sample_id) ==
    LET OptInt(o) == IF o = <<>> THEN "" ELSE IntStr(o[1])
        OptTime(o) == IF o = <<>> THEN "" ELSE TimeStr(o[1])
    IN  backend \o "|" \o speaker_name \o "|" \o sample_type \o "|"
        \o (IF file_path = NoneV THEN "" ELSE file_path) \o "|"
        \o OptInt(episode_id) \o "|" \o OptInt(segment_idx) \o "|"
        \o OptTime(start_time) \o "|" \o OptTime(end_time) \o "|"
        \o OptInt(voice_sample_id)

HasSample(samples, key) == \E i \in 1..Len(samples) : samples[i].sample_key = key

\* upsert_sample_embedding with ON CONFLICT(sample_key) DO NOTHING: a stored row
\* keeps its first vector
UpsertKeepsFirst(d, s) ==
    LET key == SampleKey(s.backend, s.speaker_name, s.sample_type, s.file_path,
                         s.episode_id, s.segment_idx, s.start_time, s.end_time,
                         s.voice_sample_id)
        models == EnsureModel(d.models, s.backend, Dim(s.embedding))
    IN  [d EXCEPT
          !.models = models,
          !.samples =
              IF HasSample(d.samples, key) THEN d.samples
              ELSE Append(d.samples,
                     [sample_key |-> key, speaker_name |-> s.speaker_name,
                      sample_type |-> s.sample_type,
                      voice_sample_id |-> s.voice_sample_id,
                      episode_id |-> s.episode_id, segment_idx |-> s.segment_idx,
                      start_time |-> s.start_time, end_time |-> s.end_time,
                      file_path |-> s.file_path, sample_date |-> s.sample_date,
                      backend_model_id |-> ModelRowId(models, s.backend,
                                                      Dim(s.embedding)),
                      embedding_blob |-> s.embedding,
                      embedding_norm |-> Norm(s.embedding)])]

\* upsert_sample_embedding: one transaction; s carries the keyword arguments
UpsertSampleEmbedding(d, s) ==
    LET packed == PackEmbeddingBlob(s.embedding)
        norm == Norm(s.embedding)
        key == SampleKey(s.backend, s.speaker_name, s.sample_type, s.file_path,
                         s.episode_id, s.segment_idx, s.start_time, s.end_time,
                         s.voice_sample_id)
        models == EnsureModel(d.models, s.backend, packed[2])
        model_id == ModelRowId(models, s.backend, packed[2])
        row == [sample_key |-> key, speaker_name |-> s.speaker_name,
                sample_type |-> s.sample_type,
                voice_sample_id |-> s.voice_sample_id,
                episode_id |-> s.episode_id, segment_idx |-> s.segment_idx,
                start_time |-> s.start_time, end_time |-> s.end_time,
                file_path |-> s.file_path, sample_date |-> s.sample_date,
                backend_model_id |-> model_id,
                embedding_blob |-> packed[1], embedding_norm |-> norm]
        Update(old) ==
            [old EXCEPT !.voice_sample_id = row.voice_sample_id,
                        !.episode_id = row.episode_id,
                        !.segment_idx = row.segment_idx,
                        !.start_time = row.start_time,
                        !.end_time = row.end_time,
                        !.file_path = row.file_path,
                        !.sample_date = row.sample_date,
                        !.backend_model_id = row.backend_model_id,
                        !.embedding_blob = row.embedding_blob,
                        !.embedding_norm = row.embedding_norm]
    IN  [d EXCEPT
          !.models = models,
          !.samples =
              IF HasSample(d.samples, key)
              THEN [i \in 1..Len(d.samples) |->
                       IF d.samples[i].sample_key = key
                       THEN Update(d.samples[i]) ELSE d.samples[i]]
              ELSE Append(d.samples, row)]

\* The rows of a table t that belong to the models in ids, in the order the
\* scan returns them.  The queries join the table with voice_embedding_models
\* and name no order for rows the ORDER BY leaves tied: sqlite either walks
\* the table (p = "rowid") or walks the backend's models through their unique
\* index, embedding_dim ascending, and the table through its backend_model_id
\* index (p = "index").
ScanRows(t, models, ids, p) ==
    LET Of(S) == SelectSeq(t, LAMBDA r : r.backend_model_id \in S)
        dims == {models[i].embedding_dim : i \in ids}
        RECURSIVE ByDim(_)
        ByDim(left) ==
            IF left = {} THEN <<>>
            ELSE LET dim == CHOOSE x \in left : \A y \in left : x <= y
                 IN  Of({i \in ids : models[i].embedding_dim = dim})
                         \o ByDim(left \ {dim})
    IN  IF p = "rowid" THEN Of(ids) ELSE ByDim(dims)

SeqToSet(s) == {s[i] : i \in 1..Len(s)}

\* the dict entry load_centroids builds from one centroid row
CentroidEntry(row) ==
    [name |-> row.speaker_name,
     embedding |-> UnpackEmbeddingBlob(row.centroid_blob, row.embedding_dim),
     sample_count |-> row.sample_count,
     sample_dates |-> SelectSeq(row.sample_dates_json, LAMBDA x : x # ""),
     sample_type |-> row.sample_type]

\* load_centroids: the centroids of the backend's active models, ordered by
\* speaker name; result[speaker_name] = ... keeps the last row of a name
LoadCentroids(d, backend, p) ==
    LET rows == ScanRows(d.centroids, d.models, ActiveModels(d.models, backend), p)
        names == SelectSeq(NocaseOrder,
                           LAMBDA n : \E i \in 1..Len(rows) : rows[i].speaker_name = n)
        LastOf(n) ==
            LET mine == SelectSeq(rows, LAMBDA r : r.speaker_name = n)
            IN  mine[Len(mine)]
    IN  [k \in 1..Len(names) |-> CentroidEntry(LastOf(names[k]))]

\* INSERT OR REPLACE INTO voice_embedding_centroids: a row with the same
\* (speaker_name, sample_type, backend_model_id) is deleted first
InsertOrReplaceCentroid(centroids, row) ==
    Append(SelectSeq(centroids,
                     LAMBDA r : ~(r.speaker_name = row.speaker_name
                                  /\ r.sample_type = row.sample_type
                                  /\ r.backend_model_id = row.backend_model_id)),
           row)

\* a replace_centroids that writes every row with the default sample_type
ReplaceRowDefaultType(e, model_id) ==
    [speaker_name |-> e.name,
     sample_type |-> "speaker",
     sample_count |-> e.sample_count,
     sample_dates_json |-> e.sample_dates,
     centroid_blob |-> e.embedding,
     embedding_dim |-> Dim(e.embedding),
     backend_model_id |-> model_id]

\* the centroid row replace_centroids writes for one dict entry
ReplaceRow(e, model_id) ==
    [speaker_name |-> e.name,
     sample_type |-> IF e.sample_type = NoneV THEN "speaker" ELSE e.sample_type,
     sample_count |-> e.sample_count,
     sample_dates_json |-> e.sample_dates,
     centroid_blob |-> PackEmbeddingBlob(e.embedding)[1],
     embedding_dim |-> PackEmbeddingBlob(e.embedding)[2],
     backend_model_id |-> model_id]

\* replace_centroids, the loop over embeddings.items()
RECURSIVE ReplaceInsertAll(_, _, _)
ReplaceInsertAll(centroids, embeddings, model_id) ==
    IF embeddings = <<>> THEN centroids
    ELSE LET e == Head(embeddings)
         IN  ReplaceInsertAll(
                 IF Dim(e.embedding) = 0 THEN centroids
                 ELSE InsertOrReplaceCentroid(centroids, ReplaceRow(e, model_id)),
                 Tail(embeddings), model_id)

\* replace_centroids: one transaction
ReplaceCentroids(d, backend, embeddings) ==
    IF embeddings = <<>>
    THEN [d EXCEPT !.centroids =
             SelectSeq(d.centroids,
                       LAMBDA r : r.backend_model_id \notin BackendModels(d.models, backend))]
    ELSE LET first == embeddings[1]
             dim == IF Dim(first.embedding) # 0 THEN Dim(first.embedding)
                    ELSE ModelMetaDim(backend)
             models == EnsureModel(d.models, backend, dim)
             model_id == ModelRowId(models, backend, dim)
             kept == SelectSeq(d.centroids, LAMBDA r : r.backend_model_id # model_id)
         IN  [d EXCEPT !.models = models,
                       !.centroids = ReplaceInsertAll(kept, embeddings, model_id)]

HasName(embeddings, n) == \E i \in 1..Len(embeddings) : embeddings[i].name = n

\* {**a, **b}: a's entries in place, overwritten by b's of the same name, then
\* b's new names in b's order
DictMerge(a, b) ==
    LET Pick(n) == CHOOSE e \in SeqToSet(b) : e.name = n
    IN  [i \in 1..Len(a) |-> IF HasName(b, a[i].name) THEN Pick(a[i].name) ELSE a[i]]
        \o SelectSeq(b, LAMBDA e : ~HasName(a, e.name))

\* import_centroids_missing_only: <<database, count added>>
ImportCentroidsMissingOnly(d, backend, embeddings, p) ==
    LET existing == LoadCentroids(d, backend, p)
        to_import == SelectSeq(embeddings, LAMBDA e : ~HasName(existing, e.name))
        merged == DictMerge(LoadCentroids(d, backend, p), to_import)
    IN  IF to_import = <<>> THEN <<d, 0>>
        ELSE <<ReplaceCentroids(d, backend, merged), Len(to_import)>>

\* export_centroids_to_json: payload["speakers"]
ExportCentroidsToJson(d, backend, p) ==
    [meta |-> [backend |-> backend, source |-> "sqlite"],
     speakers |-> LoadCentroids(d, backend, p)]

\* delete_speaker without its first DELETE: the samples stay
DeleteSpeakerCentroids(d, backend, speaker_name) ==
    LET Mine(r) == r.speaker_name = speaker_name
                   /\ r.backend_model_id \in BackendModels(d.models, backend)
    IN  [d EXCEPT !.centroids = SelectSeq(d.centroids, LAMBDA r : ~Mine(r))]

\* delete_speaker: one transaction
DeleteSpeaker(d, backend, speaker_name) ==
    LET Mine(r) == r.speaker_name = speaker_name
                   /\ r.backend_model_id \in BackendModels(d.models, backend)
    IN  [d EXCEPT !.samples = SelectSeq(d.samples, LAMBDA r : ~Mine(r)),
                  !.centroids = SelectSeq(d.centroids, LAMBDA r : ~Mine(r))]

\* clear_speaker_samples
ClearSpeakerSamples(d, backend, speaker_name) ==
    LET Mine(r) == r.speaker_name = speaker_name
                   /\ r.backend_model_id \in BackendModels(d.models, backend)
    IN  [d EXCEPT !.samples = SelectSeq(d.samples, LAMBDA r : ~Mine(r))]

\* ok = (... == 0 and ... == 0 and ... == 0) with the two file counts left out
IntegrityOkStoreOnly(orphan_samples, speakers_without_centroid, missing_voice_sample_files, missing_embedding_files) ==
    orphan_samples = 0 /\ speakers_without_centroid = 0

\* verify_integrity, the verdict
IntegrityOk(orphan_samples, speakers_without_centroid, missing_voice_sample_files, missing_embedding_files) ==
    /\ orphan_samples = 0
    /\ speakers_without_centroid = 0
    /\ missing_voice_sample_files = 0
    /\ missing_embedding_files = 0

\* file_path IS NOT NULL AND TRIM(file_path) <> '', over the paths of the model
HasPath(file_path) == file_path # NoneV /\ file_path # ""

\* verify_integrity: the report.  voice_samples is the application's table,
\* a sequence of [id, file_path]; files are the paths that exist
IntegrityReport(d, backend, voice_samples, files) ==
    LET active == ActiveModels(d.models, backend)
        samples == SelectSeq(d.samples, LAMBDA r : r.backend_model_id \in active)
        centroids == SelectSeq(d.centroids, LAMBDA r : r.backend_model_id \in active)
        groups == {<<samples[i].speaker_name, samples[i].sample_type>> :
                      i \in 1..Len(samples)}
        ctr == {<<centroids[i].speaker_name, centroids[i].sample_type>> :
                   i \in 1..Len(centroids)}
        ids == {voice_samples[i].id : i \in 1..Len(voice_samples)}
        orphan_samples ==
            Cardinality({i \in 1..Len(samples) :
                /\ samples[i].voice_sample_id # <<>>
                /\ samples[i].voice_sample_id[1] \notin ids})
        missing_voice_sample_files ==
            Cardinality({i \in 1..Len(voice_samples) :
                /\ HasPath(voice_samples[i].file_path)
                /\ voice_samples[i].file_path \notin files})
        missing_embedding_files ==
            Cardinality({i \in 1..Len(samples) :
                /\ HasPath(samples[i].file_path)
                /\ samples[i].file_path \notin files})
    IN  [ok |-> IntegrityOk(orphan_samples, Cardinality(groups \ ctr),
                            missing_voice_sample_files, missing_embedding_files),
         backend |-> backend,
         sample_rows |-> Len(samples),
         centroid_rows |-> Len(centroids),
         distinct_speaker_groups |-> Cardinality(groups),
         orphan_embedding_sample_rows |-> orphan_samples,
         speakers_without_centroid |-> Cardinality(groups \ ctr),
         missing_voice_sample_files |-> missing_voice_sample_files,
         missing_embedding_sample_files |-> missing_embedding_files]

\* s[:n]
FirstN(s, n) == IF Len(s) <= n THEN s ELSE SubSeq(s, 1, n)

\* s[-n:]
LastN(s, n) == IF Len(s) <= n THEN s ELSE SubSeq(s, Len(s) - n + 1, Len(s))

\* sample_dates[-100:], voice_library.py 541 and 929
DateHistory == 100

\* rebuild_centroids_from_samples: the keys of grouped, in the order the rows
\* first name them
RECURSIVE GroupKeys(_, _)
GroupKeys(rows, seen) ==
    IF rows = <<>> THEN seen
    ELSE LET r == Head(rows)
             key == <<r.backend_model_id, r.speaker_name, r.sample_type>>
         IN  GroupKeys(Tail(rows),
                       IF key \in SeqToSet(seen) THEN seen ELSE Append(seen, key))

\* a rebuild that groups by model and speaker only: the sample types of a
\* speaker share one group
GroupStateMixingTypes(rows, models, key) ==
    LET mine == SelectSeq(rows, LAMBDA r : r.backend_model_id = key[1]
                                           /\ r.speaker_name = key[2])
    IN  [vectors |-> [i \in 1..Len(mine) |-> mine[i].embedding_blob],
         sample_dates |-> <<>>]

\* rebuild_centroids_from_samples: grouped[key] after the loop over rows
GroupState(rows, models, key) ==
    LET mine == SelectSeq(rows, LAMBDA r : <<r.backend_model_id, r.speaker_name,
                                             r.sample_type>> = key)
        Vec(r) == UnpackEmbeddingBlob(r.embedding_blob,
                                      models[r.backend_model_id].embedding_dim)
        used == SelectSeq(mine, LAMBDA r : Dim(Vec(r)) # 0)
        dated == SelectSeq(used, LAMBDA r :
                     r.sample_date # NoneV /\ r.sample_date # ""
                     /\ NormalizeSampleDate(r.sample_date) # NoneV)
    IN  [vectors |-> [i \in 1..Len(used) |-> Vec(used[i])],
         sample_dates |-> [i \in 1..Len(dated) |->
                              NormalizeSampleDate(dated[i].sample_date)]]

\* a rebuild that keeps the vector of the last row of a group as its centroid
RebuildRowLastVector(key, state) ==
    [speaker_name |-> key[2],
     sample_type |-> key[3],
     sample_count |-> Len(state.vectors),
     sample_dates_json |-> LastN(state.sample_dates, DateHistory),
     centroid_blob |-> state.vectors[Len(state.vectors)],
     embedding_dim |-> Dim(state.vectors[Len(state.vectors)]),
     backend_model_id |-> key[1]]

\* the centroid row rebuild_centroids_from_samples writes for one group
RebuildRow(key, state) ==
    LET centroid == VMean(state.vectors)
    IN  [speaker_name |-> key[2],
         sample_type |-> key[3],
         sample_count |-> Len(state.vectors),
         sample_dates_json |-> LastN(state.sample_dates, DateHistory),
         centroid_blob |-> PackEmbeddingBlob(centroid)[1],
         embedding_dim |-> PackEmbeddingBlob(centroid)[2],
         backend_model_id |-> key[1]]

\* INSERT ... ON CONFLICT(speaker_name, sample_type, backend_model_id) DO UPDATE
UpsertCentroid(centroids, row) ==
    LET Same(r) == r.speaker_name = row.speaker_name
                   /\ r.sample_type = row.sample_type
                   /\ r.backend_model_id = row.backend_model_id
    IN  IF \E i \in 1..Len(centroids) : Same(centroids[i])
        THEN [i \in 1..Len(centroids) |->
                 IF Same(centroids[i]) THEN row ELSE centroids[i]]
        ELSE Append(centroids, row)

\* rebuild_centroids_from_samples, the loop over grouped.items()
RECURSIVE RebuildInsertAll(_, _, _, _)
RebuildInsertAll(centroids, keys, rows, models) ==
    IF keys = <<>> THEN centroids
    ELSE LET state == GroupState(rows, models, Head(keys))
         IN  RebuildInsertAll(
                 IF state.vectors = <<>> THEN centroids
                 ELSE UpsertCentroid(centroids, RebuildRow(Head(keys), state)),
                 Tail(keys), rows, models)

\* rebuild_centroids_from_samples after its SELECT returned rows: the DELETE,
\* the grouping and the INSERTs, <<database, returned counts>>
RebuildFromRows(d, backend, rows) ==
    LET cleared == SelectSeq(d.centroids,
                       LAMBDA r : r.backend_model_id \notin BackendModels(d.models, backend))
        keys == GroupKeys(rows, <<>>)
        written == Len(SelectSeq(keys,
                       LAMBDA k : GroupState(rows, d.models, k).vectors # <<>>))
    IN  IF rows = <<>>
        THEN <<[d EXCEPT !.centroids = cleared],
               [sample_rows |-> 0, group_count |-> 0, centroids_written |-> 0]>>
        ELSE <<[d EXCEPT !.centroids =
                   RebuildInsertAll(cleared, keys, rows, d.models)],
               [sample_rows |-> Len(rows), group_count |-> Len(keys),
                centroids_written |-> written]>>

\* rebuild_centroids_from_samples: <<database, returned counts>>, one transaction
RebuildCentroidsFromSamples(d, backend, p) ==
    RebuildFromRows(d, backend,
                    ScanRows(d.samples, d.models, ActiveModels(d.models, backend), p))

---------------------------------------------------------------------------
(* VoiceLibrary, store_mode = sqlite *)

Entry(embeddings, n) == CHOOSE e \in SeqToSet(embeddings) : e.name = n

\* _load_embeddings: the loaded map replaces self.embeddings when it is not empty
LoadEmbeddings(embeddings, d, backend, p) ==
    LET loaded == LoadCentroids(d, backend, p)
    IN  IF loaded # <<>> THEN loaded ELSE embeddings

\* _save_embeddings
SaveEmbeddings(d, backend, embeddings) == ReplaceCentroids(d, backend, embeddings)

\* add_speaker 912-918: a stored centroid of another shape turns the update off
KeepsUpdating(embeddings, name, new_embedding, update_existing) ==
    IF HasName(embeddings, name) /\ update_existing
    THEN Dim(Entry(embeddings, name).embedding) = Dim(new_embedding)
    ELSE update_existing

\* add_speaker 920-938: self.embeddings after the call
AddToEmbeddings(embeddings, name, new_embedding, normalized_sample_date, update_existing) ==
    LET update == KeepsUpdating(embeddings, name, new_embedding, update_existing)
        fresh == [name |-> name, embedding |-> new_embedding, sample_count |-> 1,
                  sample_dates |-> IF normalized_sample_date # NoneV
                                   THEN <<normalized_sample_date>> ELSE <<>>,
                  sample_type |-> NoneV]
        Updated(e) ==
            [e EXCEPT
              !.embedding = VDiv(VAdd(VScale(e.embedding, e.sample_count),
                                      new_embedding), e.sample_count + 1),
              !.sample_count = e.sample_count + 1,
              !.sample_dates =
                  IF normalized_sample_date # NoneV
                  THEN LastN(Append(e.sample_dates, normalized_sample_date),
                             DateHistory)
                  ELSE e.sample_dates]
    IN  IF HasName(embeddings, name)
        THEN [i \in 1..Len(embeddings) |->
                 IF embeddings[i].name = name
                 THEN IF update THEN Updated(embeddings[i]) ELSE fresh
                 ELSE embeddings[i]]
        ELSE Append(embeddings, fresh)

\* the keyword arguments add_speaker hands to upsert_sample_embedding
SampleArgs(backend, name, new_embedding, clip) ==
    [backend |-> backend, speaker_name |-> name, embedding |-> new_embedding,
     sample_type |-> ResolveSampleType(clip.sample_type, clip.audio_path,
                                       clip.file_path),
     voice_sample_id |-> clip.voice_sample_id, episode_id |-> clip.episode_id,
     segment_idx |-> clip.segment_idx,
     file_path |-> IF clip.file_path = NoneV \/ clip.file_path = ""
                   THEN clip.audio_path ELSE clip.file_path,
     sample_date |-> NormalizeSampleDate(clip.sample_date),
     start_time |-> clip.start_time, end_time |-> clip.end_time,
     source |-> "manual"]

KeyOf(s) ==
    SampleKey(s.backend, s.speaker_name, s.sample_type, s.file_path, s.episode_id,
              s.segment_idx, s.start_time, s.end_time, s.voice_sample_id)

---------------------------------------------------------------------------
(* Identification: scores are <<x>>, x in 1/Milli, or <<>> for NaN *)

Micro == Milli * Milli

\* toordinal of datetime.strptime(d, "%Y-%m-%d").date(), over the date strings
\* of the model: <<>> when strptime raises
DateOrdinal(d) ==
    CASE d = "2023-01-01" -> <<738521>>
      [] d = "2024-01-01" -> <<738886>>
      [] OTHER -> <<>>

\* _mean_date: the ordinal of the mean date, <<>> for None
MeanDate(dates) ==
    LET parsed == SelectSeq([i \in 1..Len(dates) |-> DateOrdinal(dates[i])],
                            LAMBDA o : o # <<>>)
        RECURSIVE Sum(_)
        Sum(i) == IF i = 0 THEN 0 ELSE parsed[i][1] + Sum(i - 1)
    IN  IF parsed = <<>> THEN <<>>
        ELSE <<Sum(Len(parsed)) \div Len(parsed)>>

\* math.exp(-days / 365.0) in 1/Micro, by its power series (days up to 730)
ExpNeg(days) ==
    LET RECURSIVE Term(_)
        Term(k) == IF k = 0 THEN Micro ELSE (Term(k - 1) * days) \div (365 * k)
        RECURSIVE Series(_)
        Series(k) ==
            IF k = 0 THEN Term(0)
            ELSE Series(k - 1) + (IF k % 2 = 0 THEN Term(k) ELSE -Term(k))
    IN  Series(12)

\* a _temporal_weight that does not decay with the distance of the dates
DaysWeightFlat(days_diff) == Micro

\* _temporal_weight 987: 0.5 + 0.5 * math.exp(-days_diff / 365.0), in 1/Micro
DaysWeight(days_diff) == Micro \div 2 + ExpNeg(days_diff) \div 2

\* _temporal_weight, in 1/Milli
TemporalWeight(sample_dates, target_date) ==
    IF target_date = NoneV \/ target_date = "" \/ sample_dates = <<>>
    THEN Milli
    ELSE IF DateOrdinal(target_date) = <<>> THEN Milli
    ELSE LET avg == MeanDate(sample_dates)
         IN  IF avg = <<>> THEN Milli
             ELSE LET days_diff == Abs(DateOrdinal(target_date)[1] - avg[1])
                  IN  DaysWeight(days_diff) \div Milli

\* np.dot(a, b) / (np.linalg.norm(a) * np.linalg.norm(b)): NaN when a norm is 0
Cosine(a, b) ==
    LET dot == Dot(a.num, b.num)
        aa == Dot(a.num, a.num)
        bb == Dot(b.num, b.num)
        size == ISqrt((dot * dot * Micro) \div (aa * bb))
    IN  IF aa = 0 \/ bb = 0 THEN <<>>
        ELSE <<IF dot < 0 THEN -size ELSE size>>

\* identify_speaker 1008: similarity * weight, similarity in 1/Milli, the
\* product in the unit of weight
Weighted(similarity, weight) ==
    IF similarity < 0 THEN -((-similarity * weight) \div Milli)
    ELSE (similarity * weight) \div Milli

\* identify_speaker 1004-1008: float(similarity * weight) for one centroid
Adjusted(data, embedding, target_date) ==
    LET similarity == Cosine(embedding, data.embedding)
        weight == TemporalWeight(data.sample_dates, target_date)
    IN  IF similarity = <<>> THEN <<>>
        ELSE <<Weighted(similarity[1], weight)>>

\* an identify_speaker that keeps the first centroid of the query's shape
IdentifyStepFirst(best, data, embedding, target_date) ==
    IF Dim(data.embedding) # Dim(embedding) THEN best
    ELSE LET adjusted == Adjusted(data, embedding, target_date)
         IN  IF adjusted # <<>> /\ best.best_match = NoneV
             THEN [best_match |-> data.name, best_score |-> adjusted[1]]
             ELSE best

\* an identify_speaker where a later centroid with an equal score takes over
IdentifyStepLast(best, data, embedding, target_date) ==
    IF Dim(data.embedding) # Dim(embedding) THEN best
    ELSE LET adjusted == Adjusted(data, embedding, target_date)
         IN  IF adjusted # <<>> /\ adjusted[1] >= best.best_score
             THEN [best_match |-> data.name, best_score |-> adjusted[1]]
             ELSE best

\* an identify_speaker without the shape test: a centroid of another shape is
\* cut or padded with zeros to the query's shape and scored
IdentifyStepAnyShape(best, data, embedding, target_date) ==
    LET n == Dim(embedding)
        cut == [data EXCEPT !.embedding =
                   [num |-> [i \in 1..n |-> IF i <= Dim(data.embedding)
                                            THEN data.embedding.num[i] ELSE 0],
                    den |-> data.embedding.den]]
        adjusted == Adjusted(cut, embedding, target_date)
    IN  IF adjusted # <<>> /\ adjusted[1] > best.best_score
        THEN [best_match |-> data.name, best_score |-> adjusted[1]]
        ELSE best

\* identify_speaker, one pass of the loop over self.embeddings.items()
IdentifyStep(best, data, embedding, target_date) ==
    IF Dim(data.embedding) # Dim(embedding) THEN best
    ELSE LET adjusted == Adjusted(data, embedding, target_date)
         IN  IF adjusted # <<>> /\ adjusted[1] > best.best_score
             THEN [best_match |-> data.name, best_score |-> adjusted[1]]
             ELSE best

\* an identify_speaker that wants the best score above the threshold
IdentifySpeakerAbove(embeddings, embedding, threshold, target_date) ==
    LET RECURSIVE Loop(_, _)
        Loop(best, rest) ==
            IF rest = <<>> THEN best
            ELSE Loop(IdentifyStep(best, Head(rest), embedding, target_date),
                      Tail(rest))
        best == Loop([best_match |-> NoneV, best_score |-> -Milli], embeddings)
    IN  IF embeddings = <<>> THEN [name |-> NoneV, score |-> 0]
        ELSE IF best.best_score > threshold
             THEN [name |-> best.best_match, score |-> best.best_score]
             ELSE [name |-> NoneV,
                   score |-> IF best.best_score > 0 THEN best.best_score ELSE 0]

\* identify_speaker: the returned pair
IdentifySpeaker(embeddings, embedding, threshold, target_date) ==
    LET RECURSIVE Loop(_, _)
        Loop(best, rest) ==
            IF rest = <<>> THEN best
            ELSE Loop(IdentifyStep(best, Head(rest), embedding, target_date),
                      Tail(rest))
        best == Loop([best_match |-> NoneV, best_score |-> -Milli], embeddings)
    IN  IF embeddings = <<>> THEN [name |-> NoneV, score |-> 0]
        ELSE IF best.best_score >= threshold
             THEN [name |-> best.best_match, score |-> best.best_score]
             ELSE [name |-> NoneV,
                   score |-> IF best.best_score > 0 THEN best.best_score ELSE 0]

---------------------------------------------------------------------------
(* identify_speakers_in_diarization.  A turn is [speaker, start, end, voice]: *)
(* the times in milliseconds, voice the vector the extractor answers for    *)
(* the turn's audio when it does not fail.                                  *)

\* samples per millisecond of the 16 kHz waveform: int(seg["start"] * 16000)
SamplesPerMs == 16
\* segments[:5]
TopTurns == 5
\* if end_sample - start_sample < 16000: continue
MinSamples == 16000

\* speaker_segments.keys(): the labels in the order the turns first name
\* them, without the empty label and UNKNOWN
SpeakerLabels(segments, seen) ==
    LET firsts == {i \in 1..Len(segments) :
                      /\ segments[i].speaker \notin {NoneV, "", "UNKNOWN"}
                      /\ segments[i].speaker \notin SeqToSet(seen)
                      /\ \A j \in 1..(i - 1) :
                             segments[j].speaker # segments[i].speaker}
    IN  seen \o [k \in 1..Cardinality(firsts) |->
                    segments[CHOOSE i \in firsts :
                                 Cardinality({j \in firsts : j < i}) = k - 1].speaker]

Duration(seg) == seg.end - seg.start

\* segments.sort(key=duration, reverse=True): the longest first, and the sort
\* being stable, turns of one duration in the order they had
SortByDuration(segments) ==
    LET Sooner(j, i) ==
            \/ Duration(segments[j]) > Duration(segments[i])
            \/ Duration(segments[j]) = Duration(segments[i]) /\ j < i
        Place(i) == 1 + Cardinality({j \in 1..Len(segments) : Sooner(j, i)})
    IN  [k \in 1..Len(segments) |->
            segments[CHOOSE i \in 1..Len(segments) : Place(i) = k]]

\* top_segments of one label
TopSegments(segments, speaker_label) ==
    LET sorted == SortByDuration(SelectSeq(segments,
                                           LAMBDA s : s.speaker = speaker_label))
    IN  SubSeq(sorted, 1, IF Len(sorted) < TopTurns THEN Len(sorted) ELSE TopTurns)

\* end_sample - start_sample of a turn in a waveform of wave_len samples
AudioSamples(seg, wave_len) ==
    LET start_sample == seg.start * SamplesPerMs
        end_sample == IF seg.end * SamplesPerMs < wave_len
                      THEN seg.end * SamplesPerMs ELSE wave_len
    IN  end_sample - start_sample

\* a selection that takes every turn of the label that is long enough
HandedAnyTurn(segments, speaker_label, wave_len) ==
    SelectSeq(SortByDuration(SelectSeq(segments, LAMBDA s : s.speaker = speaker_label)),
              LAMBDA s : AudioSamples(s, wave_len) >= MinSamples)

\* the turns of a label whose audio _extract_segment_embedding is called with
Handed(segments, speaker_label, wave_len) ==
    SelectSeq(TopSegments(segments, speaker_label),
              LAMBDA s : AudioSamples(s, wave_len) >= MinSamples)

\* embeddings of one label when a turn whose extraction raises is embedded
\* like the others
LabelEmbeddingsOfAll(segments, speaker_label, wave_len, fails) ==
    LET ok == Handed(segments, speaker_label, wave_len)
    IN  [i \in 1..Len(ok) |-> AsVec(ok[i].voice)]

\* embeddings of one label: what _extract_segment_embedding answered, the
\* turns in fails raising inside it
LabelEmbeddings(segments, speaker_label, wave_len, fails) ==
    LET ok == SelectSeq(Handed(segments, speaker_label, wave_len),
                        LAMBDA s : s \notin fails)
    IN  [i \in 1..Len(ok) |-> AsVec(ok[i].voice)]

\* match, score = self.identify_speaker(avg_embedding, ...), kept for a label
LabelScored(speaker_label, found) ==
    [label |-> speaker_label, scored |-> TRUE, name |-> found.name,
     score |-> found.score]

\* if embeddings: identify the mean of a label's embeddings, threshold 0.5
LabelOutcome(embeddings, speaker_label, embs, episode_date) ==
    IF embs = <<>>
    THEN [label |-> speaker_label, scored |-> FALSE, name |-> NoneV, score |-> 0]
    ELSE LabelScored(speaker_label,
             IdentifySpeaker(embeddings, VMean(embs), Milli \div 2, episode_date))

\* one pass of the loop over speaker_labels: the label's match and score
LabelResult(embeddings, segments, speaker_label, wave_len, fails, episode_date) ==
    LabelOutcome(embeddings, speaker_label,
                 LabelEmbeddings(segments, speaker_label, wave_len, fails),
                 episode_date)

\* the calls of _extract_segment_embedding of the loop over speaker_labels, as
\* the turns whose audio they are given, in the order of the calls
RECURSIVE Extracted(_, _, _)
Extracted(segments, speaker_labels, wave_len) ==
    IF speaker_labels = <<>> THEN <<>>
    ELSE Handed(segments, Head(speaker_labels), wave_len)
             \o Extracted(segments, Tail(speaker_labels), wave_len)

\* the percentage of the labels handled before the i-th
ProgressBefore(i, total) == ((i - 1) * 100) \div total

\* progress_callback(int((i + 1) / total * 100)) for the i-th label, i from 1;
\* the quotient of the integers is what the float expression gives for the
\* numbers of labels of Diarizations
ProgressValue(i, total) == (i * 100) \div total

\* the loop over speaker_labels from the i-th label on, as the sequence of its
\* calls: the extractor with the audio of a turn, the callback with a value
RECURSIVE LoopEvents(_, _, _, _)
LoopEvents(segments, speaker_labels, wave_len, i) ==
    IF i > Len(speaker_labels) THEN <<>>
    ELSE LET handed == Handed(segments, speaker_labels[i], wave_len)
         IN  [k \in 1..Len(handed) |-> [call |-> "extract", turn |-> handed[k]]]
                 \o <<[call |-> "progress",
                       value |-> ProgressValue(i, Len(speaker_labels))]>>
                 \o LoopEvents(segments, speaker_labels, wave_len, i + 1)

\* speaker_mapping, as the sequence of its items
SpeakerMapping(mapped) ==
    [i \in 1..Len(mapped) |-> [label |-> mapped[i].label, name |-> mapped[i].name]]

\* the returned dict, as the sequence of its items: an entry for every label
\* with return_scores, speaker_mapping without
Returned(results, return_scores) ==
    IF return_scores
    THEN [i \in 1..Len(results) |->
             [label |-> results[i].label, name |-> results[i].name,
              confidence |-> results[i].score]]
    ELSE SpeakerMapping(SelectSeq(results, LAMBDA r : r.scored /\ r.name # NoneV))

\* the passes of the loop over speaker_labels
LoopResults(embeddings, segments, speaker_labels, wave_len, fails, episode_date) ==
    [i \in 1..Len(speaker_labels) |->
        LabelResult(embeddings, segments, speaker_labels[i], wave_len, fails,
                    episode_date)]

\* identify_speakers_in_diarization on a library with speakers: the returned
\* dict, the values the progress callback was called with, the turns given to
\* the embedding extractor, and the calls in their order
LoopOutcome(embeddings, segments, speaker_labels, wave_len, fails, episode_date, return_scores) ==
    [ret |-> Returned(LoopResults(embeddings, segments, speaker_labels, wave_len,
                                  fails, episode_date), return_scores),
     progress |-> [i \in 1..Len(speaker_labels) |->
                      ProgressValue(i, Len(speaker_labels))],
     extracted |-> Extracted(segments, speaker_labels, wave_len),
     events |-> LoopEvents(segments, speaker_labels, wave_len, 1)]

\* identify_speakers_in_diarization; an empty library returns {} at once
IdentifySpeakersInDiarization(embeddings, segments, wave_len, fails, episode_date, return_scores) ==
    IF embeddings = <<>>
    THEN [ret |-> <<>>, progress |-> <<>>, extracted |-> <<>>, events |-> <<>>]
    ELSE LoopOutcome(embeddings, segments, SpeakerLabels(segments, <<>>), wave_len,
                     fails, episode_date, return_scores)

---------------------------------------------------------------------------
(* Transcript alignment (speaker_diarization.py); times in milliseconds *)

\* parse_timestamp: a timestamp is the sequence of the numbers between its
\* colons, hours, minutes and seconds (here in ms); any other shape gives 0.0
ParseTimestamp(ts) ==
    IF Len(ts) = 3 THEN ts[1] * 3600000 + ts[2] * 60000 + ts[3] ELSE 0

\* t_start and t_end of a transcript segment, in whisper-cli format
\* (timestamps.from, timestamps.to) or in faster-whisper format (start, end)
SegStart(t_seg) ==
    IF "timestamps" \in DOMAIN t_seg THEN ParseTimestamp(t_seg.timestamps.from)
    ELSE t_seg.start

SegEnd(t_seg) ==
    IF "timestamps" \in DOMAIN t_seg THEN ParseTimestamp(t_seg.timestamps.to)
    ELSE t_seg.end

\* s_seg['start'] <= t_mid <= s_seg['end'] with t_mid = (t_start + t_end) / 2,
\* both sides doubled
AtMid(s_seg, t_seg) ==
    /\ 2 * s_seg.start <= SegStart(t_seg) + SegEnd(t_seg)
    /\ SegStart(t_seg) + SegEnd(t_seg) <= 2 * s_seg.end

\* a scan that goes on after a match: the last turn at the midpoint
RECURSIVE SpeakerAtMidLast(_, _)
SpeakerAtMidLast(speaker_segments, t_seg) ==
    IF speaker_segments = <<>> THEN NoneV
    ELSE LET later == SpeakerAtMidLast(Tail(speaker_segments), t_seg)
         IN  IF later # NoneV THEN later
             ELSE IF AtMid(Head(speaker_segments), t_seg)
                  THEN Head(speaker_segments).speaker
                  ELSE NoneV

\* the scan of speaker_segments with its break: the first turn at the midpoint
RECURSIVE SpeakerAtMid(_, _)
SpeakerAtMid(speaker_segments, t_seg) ==
    IF speaker_segments = <<>> THEN NoneV
    ELSE IF AtMid(Head(speaker_segments), t_seg)
         THEN Head(speaker_segments).speaker
         ELSE SpeakerAtMid(Tail(speaker_segments), t_seg)

\* t_seg['speaker'] = speaker or 'UNKNOWN'
Labelled(speaker_segments, t_seg) ==
    LET speaker == SpeakerAtMid(speaker_segments, t_seg)
    IN  [f \in DOMAIN t_seg \cup {"speaker"} |->
            IF f = "speaker"
            THEN IF speaker = NoneV \/ speaker = "" THEN "UNKNOWN" ELSE speaker
            ELSE t_seg[f]]

\* transcript.get('segments', transcript.get('transcription', []))
TranscriptSegments(transcript) ==
    IF "segments" \in DOMAIN transcript THEN transcript.segments
    ELSE IF "transcription" \in DOMAIN transcript THEN transcript.transcription
    ELSE <<>>

\* identified_speakers of one label; speaker_mapping is a function from
\* labels to {name, confidence}, None taking the path of the empty one
IdentifiedSpeaker(speaker_mapping, label) ==
    IF label \in DOMAIN speaker_mapping
    THEN speaker_mapping[label]
    ELSE [name |-> NoneV, confidence |-> 0]

\* align_with_transcript: the segments with their speaker field, and the
\* names of the identified labels (speaker_names)
AlignWithTranscript(diarization, transcript, speaker_mapping) ==
    LET transcript_segments == TranscriptSegments(transcript)
        named == {l \in SeqToSet(diarization.speakers) :
                     IdentifiedSpeaker(speaker_mapping, l).name # NoneV}
    IN  [segments |-> [k \in 1..Len(transcript_segments) |->
                          Labelled(diarization.segments, transcript_segments[k])],
         speaker_names |-> [l \in named |->
                               IdentifiedSpeaker(speaker_mapping, l).name]]

---------------------------------------------------------------------------
(* Operations *)

\* one more call, while the run may make one
Call == calls < MaxCalls /\ calls' = calls + 1

\* the VoiceLibrary instances of two processes that share the store, and the
\* speaker each of them enrols
Instances == {1, 2}

PairName(i) == IF i = 1 THEN "Matt" ELSE "Paul"

Init ==
    /\ db = EmptyDb
    /\ plan \in {"rowid", "index"}
    /\ lib = [backend |-> DEFAULT_BACKEND, embeddings |-> <<>>]
    /\ last = [op |-> "init"]
    /\ calls = 0
    /\ txn = [pc |-> "idle"]
    /\ pair = [i \in Instances |-> [pc |-> "start", embeddings |-> <<>>]]
    /\ batch = [pc |-> "idle"]

\* VoiceLibrary(backend=..., store_mode="sqlite"): a new process opens the store
NewLibrary(backend) ==
    /\ Call
    /\ lib' = [backend |-> backend,
               embeddings |-> LoadEmbeddings(<<>>, db, backend, plan)]
    /\ last' = [op |-> "new_library"]
    /\ UNCHANGED <<db, plan, batch, pair, txn>>

\* add_speaker with an audio file that exists and an extractor that answers raw
AddSpeakerDone(name, raw, clip, update_existing) ==
    LET new_embedding == AsVec(raw)
        args == SampleArgs(lib.backend, name, new_embedding, clip)
        embeddings == AddToEmbeddings(lib.embeddings, name, new_embedding,
                                      args.sample_date, update_existing)
    IN  /\ db' = SaveEmbeddings(UpsertSampleEmbedding(db, args), lib.backend,
                                embeddings)
        /\ lib' = [lib EXCEPT !.embeddings = embeddings]
        /\ last' = [op |-> "add_speaker", name |-> name, args |-> args,
                    update |-> KeepsUpdating(lib.embeddings, name, new_embedding,
                                             update_existing),
                    known |-> HasName(lib.embeddings, name),
                    stored |-> HasSample(db.samples, KeyOf(args)),
                    ret |-> TRUE]
        /\ UNCHANGED <<plan, batch, pair, txn>>

\* add_speaker on a library of a few samples
AddSpeaker(name, raw, clip, update_existing) ==
    LET args == SampleArgs(lib.backend, name, AsVec(raw), clip)
    IN  /\ Call
        /\ HasSample(db.samples, KeyOf(args)) \/ Len(db.samples) < MaxSamples
        /\ HasName(lib.embeddings, name)
               => Entry(lib.embeddings, name).sample_count < MaxCount
        /\ AddSpeakerDone(name, raw, clip, update_existing)

\* the library and the store after n enrolments of Matt, all of the vector
\* <<2>>, in turn from the clip dated 2023-01-01 and the clip dated 2024/01/01
HistoryLengths == {98, 99, 100}

LongHistory(n) ==
    [i \in 1..n |-> IF i % 2 = 1 THEN NormalizeSampleDate(ClipA.sample_date)
                    ELSE NormalizeSampleDate(ClipB.sample_date)]

LongLibrary(n) ==
    <<[name |-> "Matt", embedding |-> AsVec(<<2>>), sample_count |-> n,
       sample_dates |-> LongHistory(n), sample_type |-> NoneV]>>

LongDb(n) ==
    SaveEmbeddings(
        UpsertSampleEmbedding(
            UpsertSampleEmbedding(EmptyDb,
                SampleArgs(DEFAULT_BACKEND, "Matt", AsVec(<<2>>), ClipA)),
            SampleArgs(DEFAULT_BACKEND, "Matt", AsVec(<<2>>), ClipB)),
        DEFAULT_BACKEND, LongLibrary(n))

InitDates ==
    /\ \E n \in HistoryLengths :
           /\ db = LongDb(n)
           /\ lib = [backend |-> DEFAULT_BACKEND, embeddings |-> LongLibrary(n)]
    /\ plan \in {"rowid", "index"}
    /\ last = [op |-> "init"]
    /\ calls = 0
    /\ txn = [pc |-> "idle"]
    /\ pair = [i \in Instances |-> [pc |-> "start", embeddings |-> <<>>]]
    /\ batch = [pc |-> "idle"]

\* the enrolments that follow a long history
DateCalls == 3

\* add_speaker on a library with a long history
AddDated(name, raw, clip, update_existing) ==
    /\ calls < DateCalls
    /\ calls' = calls + 1
    /\ AddSpeakerDone(name, raw, clip, update_existing)

\* a name of white space only: name.split()[0] raises for it
BlankName == " "

\* where an add_speaker call can leave its try block or return early: the
\* audio file is missing, extract_embedding raises, a statement of the upsert
\* raises after the model row was inserted, name.split()[0] raises while the
\* new entry is built, replace_centroids raises in _save_embeddings
RaisePoints == {"exists", "extract", "upsert", "entry", "save"}

\* the database file after a with block that is left by an exception, with d
\* committed before it and work written in it: the transaction is rolled back
RolledBack(d, work) == d

\* add_speaker when it returns False
AddSpeakerRaising(name, raw, clip, update_existing, at) ==
    LET new_embedding == AsVec(raw)
        args == SampleArgs(lib.backend, name, new_embedding, clip)
        embeddings == AddToEmbeddings(lib.embeddings, name, new_embedding,
                                      args.sample_date, update_existing)
        resolved == [db EXCEPT !.models =
                        EnsureModel(db.models, lib.backend,
                                    PackEmbeddingBlob(new_embedding)[2])]
        upserted == UpsertSampleEmbedding(db, args)
    IN  /\ Call
        /\ HasSample(db.samples, KeyOf(args)) \/ Len(db.samples) < MaxSamples
        /\ HasName(lib.embeddings, name)
               => Entry(lib.embeddings, name).sample_count < MaxCount
        /\ (at = "entry") = (name = BlankName /\ ~HasName(lib.embeddings, name))
        /\ db' = CASE at \in {"exists", "extract"} -> db
                   [] at = "upsert" -> RolledBack(db, resolved)
                   [] at = "entry" -> upserted
                   [] at = "save" ->
                          RolledBack(upserted,
                                     SaveEmbeddings(upserted, lib.backend, embeddings))
        /\ lib' = IF at = "save" THEN [lib EXCEPT !.embeddings = embeddings] ELSE lib
        /\ last' = [op |-> "add_speaker", name |-> name, args |-> args,
                    update |-> KeepsUpdating(lib.embeddings, name, new_embedding,
                                             update_existing),
                    known |-> HasName(lib.embeddings, name),
                    stored |-> HasSample(db.samples, KeyOf(args)),
                    ret |-> FALSE, at |-> at,
                    before |-> [db |-> db, embeddings |-> lib.embeddings]]
        /\ UNCHANGED <<plan, batch, pair, txn>>

\* VoiceLibrary(store_mode="sqlite") in process i: _load_embeddings
PairOpen(i) ==
    /\ pair[i].pc = "start"
    /\ pair' = [pair EXCEPT ![i] =
                   [pc |-> "loaded",
                    embeddings |-> LoadEmbeddings(<<>>, db, DEFAULT_BACKEND, plan)]]
    /\ last' = [op |-> "pair_open", instance |-> i]
    /\ UNCHANGED <<db, plan, batch, lib, calls, txn>>

\* add_speaker in process i up to _save_embeddings: the sample's transaction
\* and the update of self.embeddings
PairUpsert(i, raw, clip) ==
    LET new_embedding == AsVec(raw)
        args == SampleArgs(DEFAULT_BACKEND, PairName(i), new_embedding, clip)
    IN  /\ pair[i].pc = "loaded"
        /\ db' = UpsertSampleEmbedding(db, args)
        /\ pair' = [pair EXCEPT ![i] =
                       [pc |-> "upserted", args |-> args,
                        embeddings |-> AddToEmbeddings(pair[i].embeddings,
                                           PairName(i), new_embedding,
                                           args.sample_date, TRUE)]]
        /\ last' = [op |-> "pair_upsert", instance |-> i]
        /\ UNCHANGED <<plan, batch, lib, calls, txn>>

\* add_speaker in process i, _save_embeddings: the centroids' transaction
PairSave(i) ==
    /\ pair[i].pc = "upserted"
    /\ db' = SaveEmbeddings(db, DEFAULT_BACKEND, pair[i].embeddings)
    /\ pair' = [pair EXCEPT ![i].pc = "saved"]
    /\ last' = [op |-> "pair_save", instance |-> i]
    /\ UNCHANGED <<plan, batch, lib, calls, txn>>

\* the application's voice_samples table: absent, empty, or with the row that
\* ClipB refers to, its file named, unnamed or another one
VoiceSampleTables ==
    {[present |-> FALSE, rows |-> <<>>],
     [present |-> TRUE, rows |-> <<>>],
     [present |-> TRUE, rows |-> <<[id |-> 3, file_path |-> "samples/b.wav"]>>],
     [present |-> TRUE, rows |-> <<[id |-> 3, file_path |-> NoneV]>>],
     [present |-> TRUE, rows |-> <<[id |-> 4, file_path |-> "samples/old.wav"]>>]}

\* the audio files that exist when the store is verified
FileSystems ==
    {{"samples/a.wav", "samples/b.wav", "sound_bites/c.wav", "samples/old.wav"},
     {"samples/a.wav", "sound_bites/c.wav"},
     {}}

\* verify_integrity: SELECTs only; without the voice_samples table the fourth
\* SELECT raises
VerifyIntegrity(backend, voice_samples, files) ==
    /\ Call
    /\ db' = db
    /\ last' = [op |-> "verify_integrity", backend |-> backend,
                voice_samples |-> voice_samples, files |-> files, before |-> db,
                raised |-> ~voice_samples.present,
                ret |-> IF voice_samples.present
                        THEN IntegrityReport(db, backend, voice_samples.rows, files)
                        ELSE [ok |-> FALSE]]
    /\ UNCHANGED <<plan, batch, pair, lib, txn>>

\* the calls a process makes on the store itself, each for one backend
StoreCalls == 3

StoreCall(op, backend, after) ==
    /\ calls' = calls + 1
    /\ db' = after
    /\ last' = [op |-> op, backend |-> backend, before |-> db]
    /\ UNCHANGED <<plan, batch, pair, lib, txn>>

StoreVectors == {<<2>>, <<1, 0>>}

\* SqliteVoiceEmbeddingStore.upsert_sample_embedding
StoreUpsert(backend, name, raw, clip) ==
    /\ calls < StoreCalls
    /\ StoreCall("upsert_sample_embedding", backend,
                 UpsertSampleEmbedding(db, SampleArgs(backend, name, AsVec(raw), clip)))

\* SqliteVoiceEmbeddingStore.replace_centroids
StoreReplace(backend, embeddings) ==
    /\ calls < StoreCalls
    /\ StoreCall("replace_centroids", backend,
                 ReplaceCentroids(db, backend, embeddings))

\* SqliteVoiceEmbeddingStore.import_centroids_missing_only
StoreImport(backend, embeddings) ==
    /\ calls < StoreCalls
    /\ StoreCall("import_centroids_missing_only", backend,
                 ImportCentroidsMissingOnly(db, backend, embeddings, plan)[1])

\* SqliteVoiceEmbeddingStore.rebuild_centroids_from_samples
StoreRebuild(backend) ==
    /\ calls < StoreCalls
    /\ StoreCall("rebuild_centroids_from_samples", backend,
                 RebuildCentroidsFromSamples(db, backend, plan)[1])

\* SqliteVoiceEmbeddingStore.delete_speaker
StoreDelete(backend, name) ==
    /\ calls < StoreCalls
    /\ StoreCall("delete_speaker", backend, DeleteSpeaker(db, backend, name))

\* SqliteVoiceEmbeddingStore.clear_speaker_samples
StoreClear(backend, name) ==
    /\ calls < StoreCalls
    /\ StoreCall("clear_speaker_samples", backend,
                 ClearSpeakerSamples(db, backend, name))

\* harvest_voice_samples.py

\* is_placeholder_speaker_name over the speaker names of the model
IsPlaceholderSpeakerName(name) == name = "SPEAKER_01"

\* the episodes get_episodes_with_speakers returns to one run
MaxEpisodes == 2

\* what happens to one segment of get_segments_for_label: its clip file is
\* there already ("exists"), extract_audio_clip gives no file ("no_clip"),
\* or the clip is written and the extractor then raises ("raises") or
\* answers a vector ("vector")
SegmentOutcomes == {"exists", "no_clip", "raises", "vector"}

SegmentLists ==
    {<<>>}
    \cup {<<[segment_idx |-> 0, outcome |-> o]>> : o \in SegmentOutcomes}
    \cup {<<[segment_idx |-> 0, outcome |-> o1], [segment_idx |-> 1, outcome |-> o2]>> :
             o1 \in SegmentOutcomes, o2 \in SegmentOutcomes}

\* get_speaker_label_map with the segments of each label
LabelMaps ==
    {<<>>}
    \cup {<<[speaker_name |-> "Matt", segments |-> s]>> : s \in SegmentLists}
    \cup {<<[speaker_name |-> "SPEAKER_01", segments |-> <<>>],
            [speaker_name |-> "Paul", segments |-> s]>> :
             s \in {t \in SegmentLists : Len(t) = 1}}

\* where the episode's audio is: at audio_file_path ("path"), only in
\* audio_base ("scan") or nowhere ("none")
AudioPlaces == {"path", "scan", "none"}

\* the row of the episode the loop handles as number id
EpisodeRows(id) ==
    {[id |-> id, episode_number |-> id, published_date |-> "2023-01-01",
      audio |-> a, label_map |-> m] : a \in AudioPlaces, m \in LabelMaps}

\* speaker_dir / f"{prefix}.wav"
OutFile(speaker_name, ep, seg) ==
    "samples/" \o speaker_name \o "/ep" \o IntStr(ep.episode_number) \o "_id"
        \o IntStr(ep.id) \o "_seg" \o IntStr(seg.segment_idx) \o ".wav"

\* the arguments of library.add_speaker(speaker_name, clipped,
\* update_existing=True, sample_date=published_date)
HarvestClip(speaker_name, ep, seg) ==
    [audio_path |-> OutFile(speaker_name, ep, seg), file_path |-> NoneV,
     sample_type |-> NoneV, sample_date |-> ep.published_date,
     voice_sample_id |-> <<>>, episode_id |-> <<>>, segment_idx |-> <<>>,
     start_time |-> <<>>, end_time |-> <<>>]

\* the vector the extractor answers for a harvested clip
HarvestVector == AsVec(<<1, 0>>)

\* library.add_speaker inside the run: h.db and h.embeddings after the call
HarvestAdd(h, backend, speaker_name, ep, seg) ==
    LET args == SampleArgs(backend, speaker_name, HarvestVector,
                           HarvestClip(speaker_name, ep, seg))
        embeddings == AddToEmbeddings(h.embeddings, speaker_name, HarvestVector,
                                      args.sample_date, TRUE)
    IN  IF seg.outcome = "vector"
        THEN [h EXCEPT !.db = SaveEmbeddings(UpsertSampleEmbedding(h.db, args),
                                             backend, embeddings),
                       !.embeddings = embeddings]
        ELSE h

\* main, the body of the loop over segments
HarvestSegment(h, backend, dry_run, speaker_name, ep, seg) ==
    IF seg.outcome = "exists" THEN [h EXCEPT !.skipped = @ + 1]
    ELSE IF dry_run THEN [h EXCEPT !.samples_added = @ + 1]
    ELSE IF seg.outcome = "no_clip" THEN [h EXCEPT !.skipped = @ + 1]
    ELSE [HarvestAdd(h, backend, speaker_name, ep, seg)
             EXCEPT !.samples_added = @ + 1]

\* main, the loop over segments
RECURSIVE HarvestSegments(_, _, _, _, _, _)
HarvestSegments(h, backend, dry_run, speaker_name, ep, segments) ==
    IF segments = <<>> THEN h
    ELSE HarvestSegments(
             HarvestSegment(h, backend, dry_run, speaker_name, ep, Head(segments)),
             backend, dry_run, speaker_name, ep, Tail(segments))

\* main, the loop over label_map.items()
RECURSIVE HarvestLabels(_, _, _, _, _)
HarvestLabels(h, backend, dry_run, ep, label_map) ==
    IF label_map = <<>> THEN h
    ELSE HarvestLabels(
             IF IsPlaceholderSpeakerName(Head(label_map).speaker_name)
             THEN [h EXCEPT !.skipped = @ + 1]
             ELSE HarvestSegments(h, backend, dry_run, Head(label_map).speaker_name,
                                  ep, Head(label_map).segments),
             backend, dry_run, ep, Tail(label_map))

\* the run's database, library map and counters as one record
HarvestState ==
    [db |-> db, embeddings |-> lib.embeddings,
     samples_added |-> batch.samples_added, skipped |-> batch.skipped]

\* main up to the loop: the library is opened and the episodes are read
HarvestStart(total, dry_run) ==
    /\ batch.pc = "idle"
    /\ batch' = [pc |-> "loop", total |-> total, dry_run |-> dry_run, ep_idx |-> 0,
                 episodes_processed |-> 0, samples_added |-> 0, skipped |-> 0,
                 progress |-> <<>>]
    /\ lib' = [lib EXCEPT !.embeddings =
                  LoadEmbeddings(<<>>, db, lib.backend, plan)]
    /\ last' = [op |-> "harvest_start"]
    /\ UNCHANGED <<db, plan, calls, txn, pair>>

\* main, one pass of the loop over episodes
HarvestEpisode(ep) ==
    LET line == <<batch.ep_idx + 1, batch.total>>
        h == HarvestLabels(HarvestState, lib.backend, batch.dry_run, ep, ep.label_map)
    IN  /\ batch.pc = "loop"
        /\ batch.ep_idx < batch.total
        /\ ep.id = batch.ep_idx + 1
        /\ last' = [op |-> "harvest_episode", ep |-> ep]
        /\ UNCHANGED <<plan, calls, txn, pair>>
        /\ CASE ep.audio = "scan" ->
                    \* audio_path set by the glob: "if audio_path: break"
                    /\ batch' = [batch EXCEPT !.pc = "report"]
                    /\ UNCHANGED <<db, lib>>
             [] ep.audio = "none" \/ (ep.audio = "path" /\ ep.label_map = <<>>) ->
                    /\ batch' = [batch EXCEPT
                                   !.skipped = @ + 1,
                                   !.progress = Append(@, line),
                                   !.ep_idx = @ + 1,
                                   !.pc = IF batch.ep_idx + 1 = batch.total
                                          THEN "report" ELSE "loop"]
                    /\ UNCHANGED <<db, lib>>
             [] OTHER ->
                    /\ batch' = [batch EXCEPT
                                   !.episodes_processed = @ + 1,
                                   !.samples_added = h.samples_added,
                                   !.skipped = h.skipped,
                                   !.progress = Append(@, line),
                                   !.ep_idx = @ + 1,
                                   !.pc = IF batch.ep_idx + 1 = batch.total
                                          THEN "report" ELSE "loop"]
                    /\ db' = h.db
                    /\ lib' = [lib EXCEPT !.embeddings = h.embeddings]

\* main after the loop: the JSON summary
HarvestReport ==
    /\ batch.pc = "report" \/ (batch.pc = "loop" /\ batch.total = 0)
    /\ batch' = [batch EXCEPT !.pc = "done"]
    /\ last' = [op |-> "harvest_report",
                ret |-> [status |-> "success",
                         episodes_processed |-> batch.episodes_processed,
                         samples_added |-> batch.samples_added,
                         skipped |-> batch.skipped]]
    /\ UNCHANGED <<db, plan, lib, calls, txn, pair>>

\* clips that differ from ClipB in one provenance keyword each, and the clips
\* of the other runs
KeyClips ==
    {ClipA, ClipB, ClipBite,
     [ClipB EXCEPT !.start_time = <<10004>>],
     [ClipB EXCEPT !.start_time = <<10010>>],
     [ClipB EXCEPT !.end_time = <<25003>>],
     [ClipB EXCEPT !.episode_id = <<8>>],
     [ClipB EXCEPT !.segment_idx = <<1>>],
     [ClipB EXCEPT !.voice_sample_id = <<4>>],
     [ClipB EXCEPT !.file_path = "samples/a.wav"],
     [ClipB EXCEPT !.sample_type = "sound_bite"]}

\* the enrolments of a run over KeyClips
KeyCalls == 2

\* add_speaker with the provenance keywords of a clip of KeyClips
AddKeyed(name, raw, clip) ==
    /\ calls < KeyCalls
    /\ calls' = calls + 1
    /\ AddSpeakerDone(name, raw, clip, TRUE)

\* remove_speaker
RemoveSpeaker(name) ==
    /\ Call
    /\ UNCHANGED txn
    /\ IF HasName(lib.embeddings, name)
       THEN LET embeddings == SelectSeq(lib.embeddings, LAMBDA e : e.name # name)
            IN  /\ db' = DeleteSpeaker(SaveEmbeddings(db, lib.backend, embeddings),
                                       lib.backend, name)
                /\ lib' = [lib EXCEPT !.embeddings = embeddings]
                /\ last' = [op |-> "remove_speaker", name |-> name, ret |-> TRUE]
                /\ UNCHANGED <<plan, batch, pair>>
       ELSE /\ last' = [op |-> "remove_speaker", name |-> name, ret |-> FALSE]
            /\ UNCHANGED <<db, plan, batch, pair, lib>>

\* main, command rebuild-from-db: rebuild_centroids_from_samples, then
\* library._load_embeddings
RebuildFromDb ==
    LET res == RebuildCentroidsFromSamples(db, lib.backend, plan)
    IN  /\ Call
        /\ db' = res[1]
        /\ lib' = [lib EXCEPT !.embeddings =
                      LoadEmbeddings(lib.embeddings, res[1], lib.backend, plan)]
        /\ last' = [op |-> "rebuild", backend |-> lib.backend, ret |-> res[2]]
        /\ UNCHANGED <<plan, batch, pair, txn>>

\* what the JSON library of main's migrate-json can hold
JsonPaul ==
    [name |-> "Paul", embedding |-> AsVec(<<0, 1>>), sample_count |-> 2,
     sample_dates |-> <<"2023-01-01">>, sample_type |-> NoneV]

JsonMatt ==
    [name |-> "Matt", embedding |-> AsVec(<<2>>), sample_count |-> 1,
     sample_dates |-> <<>>, sample_type |-> "sound_bite"]

JsonLibraries == {<<JsonPaul>>, <<JsonMatt, JsonPaul>>}

\* main, command migrate-json: import_centroids_missing_only
MigrateJson(embeddings) ==
    LET res == ImportCentroidsMissingOnly(db, lib.backend, embeddings, plan)
    IN  /\ Call
        /\ db' = res[1]
        /\ last' = [op |-> "import", backend |-> lib.backend,
                    embeddings |-> embeddings, ret |-> res[2]]
        /\ UNCHANGED <<plan, batch, pair, lib, txn>>

\* the queries of identify_speaker: vector, threshold (1/Milli), target_date
Queries == {<<1, 0>>, <<1, 1>>, <<0, 0>>, <<1>>}
Thresholds == {-500, 0, 500, 1000}
TargetDates == {NoneV, "2024-01-01", "2024/01/01"}

\* identify_speaker
Identify(raw, threshold, target_date) ==
    /\ Call
    /\ last' = [op |-> "identify", embedding |-> AsVec(raw),
                threshold |-> threshold, target_date |-> target_date,
                ret |-> IdentifySpeaker(lib.embeddings, AsVec(raw), threshold,
                                        target_date)]
    /\ UNCHANGED <<db, plan, batch, pair, lib, txn>>

\* a turn of a diarization
Turn(speaker, start, end, voice) ==
    [speaker |-> speaker, start |-> start, end |-> end, voice |-> voice]

\* one label with a turn of 0.8 s and a turn of 6 s
TurnsTwo ==
    <<Turn("SPEAKER_00", 0, 800, <<1, 0>>), Turn("SPEAKER_00", 1000, 7000, <<0, 1>>)>>

\* a label with seven turns, two of them of the same length, a turn without
\* label, a label with one turn of half a second, and a label with one turn
TurnsMany ==
    <<Turn("SPEAKER_01", 0, 3000, <<1, 0>>), Turn("SPEAKER_01", 3000, 4000, <<0, 1>>),
      Turn("SPEAKER_01", 4000, 6000, <<1, 0>>), Turn("SPEAKER_01", 6000, 8000, <<1, 0>>),
      Turn("SPEAKER_01", 8000, 13000, <<1, 0>>), Turn("SPEAKER_01", 13000, 17000, <<1, 0>>),
      Turn("SPEAKER_01", 17000, 17900, <<0, 1>>), Turn("UNKNOWN", 18000, 20000, <<0, 1>>),
      Turn("SPEAKER_02", 20000, 20500, <<0, 1>>), Turn("SPEAKER_00", 21000, 27000, <<0, 1>>)>>

Diarizations == {TurnsTwo, TurnsMany}

\* waveform.shape[1]: a file that holds every turn, and one that ends at 8.5 s
WaveLengths == {30000 * SamplesPerMs, 8500 * SamplesPerMs}

\* the turns whose extraction raises: none, those of 5 s and more, all
FailSets(segments) ==
    {{}, {s \in SeqToSet(segments) : Duration(s) >= 5000}, SeqToSet(segments)}

\* identify_speakers_in_diarization with a progress callback
Diarize(segments, wave_len, fails, episode_date, return_scores) ==
    LET res == IdentifySpeakersInDiarization(lib.embeddings, segments, wave_len,
                                             fails, episode_date, return_scores)
    IN  /\ Call
        /\ last' = [op |-> "diarize", segments |-> segments, wave_len |-> wave_len,
                    fails |-> fails, episode_date |-> episode_date,
                    return_scores |-> return_scores, ret |-> res.ret,
                    progress |-> res.progress, extracted |-> res.extracted,
                    events |-> res.events]
        /\ UNCHANGED <<db, plan, batch, pair, lib, txn>>

\* the cosine similarities and the distances in days of the scores compared
Similarities == {-Milli, -707, 0, 20, 707, Milli}
MaxDays == 729

\* identify_speaker 1004-1008 for a centroid whose cosine with the query is
\* similarity and whose mean sample date is days from the target date; the
\* runs take a similarity and move the target date away day by day
WeighScore(similarity, days) ==
    /\ days = IF last.op = "weigh" /\ last.similarity = similarity
              THEN last.days + 1 ELSE 0
    /\ last' = [op |-> "weigh", similarity |-> similarity, days |-> days,
                score |-> Weighted(similarity, DaysWeight(days))]
    /\ UNCHANGED <<db, plan, batch, pair, lib, calls, txn>>

---------------------------------------------------------------------------
(* The store calls that rewrite the centroids, statement by statement.      *)
(* "with self._connect() as conn" opens a connection of its own; sqlite3    *)
(* begins a transaction before the first INSERT, UPDATE or DELETE and the   *)
(* with block commits it at its end, or rolls it back when a statement      *)
(* raises.  txn.work is the database as the writer's connection sees it.    *)

\* a store whose statements reach the database file one by one
Autocommit(d, work) == work

\* what the other connections find in the database file while the writer's
\* transaction is open with d committed and work written: the journal keeps
\* the uncommitted statements to the writer
Committed(d, work) == d

\* the statements replace_centroids runs after it resolved the model row
ReplaceStatements(embeddings, model_id) ==
    <<[stmt |-> "delete", model_id |-> model_id]>>
        \o [i \in 1..Len(SelectSeq(embeddings, LAMBDA e : Dim(e.embedding) # 0)) |->
               [stmt |-> "insert_or_replace", model_id |-> model_id,
                data |-> SelectSeq(embeddings, LAMBDA e : Dim(e.embedding) # 0)[i]]]

\* the INSERTs rebuild_centroids_from_samples runs: one per group with vectors
RebuildStatements(rows, models) ==
    LET keys == SelectSeq(GroupKeys(rows, <<>>),
                          LAMBDA k : GroupState(rows, models, k).vectors # <<>>)
    IN  [i \in 1..Len(keys) |-> [stmt |-> "upsert", key |-> keys[i]]]

\* one conn.execute of the open transaction
Execute(work, st, rows) ==
    CASE st.stmt = "delete" ->
           [work EXCEPT !.centroids =
               SelectSeq(@, LAMBDA r : r.backend_model_id # st.model_id)]
      [] st.stmt = "insert_or_replace" ->
           [work EXCEPT !.centroids =
               InsertOrReplaceCentroid(@, ReplaceRow(st.data, st.model_id))]
      [] st.stmt = "upsert" ->
           [work EXCEPT !.centroids =
               UpsertCentroid(@, RebuildRow(st.key,
                                            GroupState(rows, work.models, st.key)))]

\* rebuild_centroids_from_samples 467-483: the SELECT, before any transaction
RebuildSelect ==
    /\ Call
    /\ txn.pc = "idle"
    /\ txn' = [pc |-> "selected", op |-> "rebuild", backend |-> lib.backend,
               rows |-> ScanRows(db.samples, db.models,
                                 ActiveModels(db.models, lib.backend), plan)]
    /\ last' = [op |-> "select"]
    /\ UNCHANGED <<db, plan, batch, pair, lib>>

\* rebuild_centroids_from_samples 485-493: the DELETE opens the transaction
RebuildDelete ==
    /\ txn.pc = "selected"
    /\ LET work == [db EXCEPT !.centroids =
                       SelectSeq(@, LAMBDA r : r.backend_model_id
                                     \notin BackendModels(db.models, txn.backend))]
       IN  /\ txn' = [pc |-> "open", op |-> "rebuild", backend |-> txn.backend,
                      rows |-> txn.rows, embeddings |-> <<>>, start |-> db,
                      work |-> work,
                      todo |-> RebuildStatements(txn.rows, db.models)]
           /\ db' = Committed(db, work)
    /\ last' = [op |-> "delete"]
    /\ UNCHANGED <<plan, batch, pair, lib, calls>>

\* replace_centroids up to its first statement: the DELETE of the backend's
\* centroids for an empty map, _model_row_id otherwise
ReplaceBegin(embeddings) ==
    /\ Call
    /\ txn.pc = "idle"
    /\ LET dim == IF Dim(embeddings[1].embedding) # 0
                  THEN Dim(embeddings[1].embedding)
                  ELSE ModelMetaDim(lib.backend)
           models == EnsureModel(db.models, lib.backend, dim)
           work == IF embeddings = <<>>
                   THEN [db EXCEPT !.centroids =
                            SelectSeq(@, LAMBDA r : r.backend_model_id
                                \notin BackendModels(db.models, lib.backend))]
                   ELSE [db EXCEPT !.models = models]
       IN  /\ txn' = [pc |-> "open", op |-> "replace", backend |-> lib.backend,
                      rows |-> <<>>, embeddings |-> embeddings, start |-> db,
                      work |-> work,
                      todo |-> IF embeddings = <<>> THEN <<>>
                               ELSE ReplaceStatements(embeddings,
                                        ModelRowId(models, lib.backend, dim))]
           /\ db' = Committed(db, work)
    /\ last' = [op |-> "begin"]
    /\ UNCHANGED <<plan, batch, pair, lib>>

\* the next conn.execute of the open transaction
TxnStatement ==
    /\ txn.pc = "open"
    /\ txn.todo # <<>>
    /\ LET work == Execute(txn.work, Head(txn.todo), txn.rows)
       IN  /\ txn' = [txn EXCEPT !.work = work, !.todo = Tail(@)]
           /\ db' = Committed(db, work)
    /\ last' = [op |-> "execute"]
    /\ UNCHANGED <<plan, batch, pair, lib, calls>>

\* the end of the with block: commit
TxnCommit ==
    /\ txn.pc = "open"
    /\ txn.todo = <<>>
    /\ db' = txn.work
    /\ txn' = [pc |-> "idle"]
    /\ last' = [op |-> "commit"]
    /\ UNCHANGED <<plan, batch, pair, lib, calls>>

\* a statement raises (sqlite3.OperationalError): the with block rolls back
TxnRollback ==
    /\ txn.pc = "open"
    /\ txn.todo # <<>>
    /\ db' = txn.start
    /\ txn' = [pc |-> "idle"]
    /\ last' = [op |-> "rollback"]
    /\ UNCHANGED <<plan, batch, pair, lib, calls>>

\* load_centroids on a connection of its own, at any moment
LoadCentroidsRead ==
    /\ Call
    /\ last' = [op |-> "load_centroids", backend |-> lib.backend, txn |-> txn,
                ret |-> LoadCentroids(db, lib.backend, plan)]
    /\ UNCHANGED <<db, plan, batch, pair, lib, txn>>

\* the maps replace_centroids is called with
ReplaceMaps == {<<>>, <<JsonPaul>>, <<JsonMatt, JsonPaul>>}

Next ==
    \/ NewLibrary(lib.backend)
    \/ \E n \in Speakers, v \in RawVectors, c \in Clips :
           AddSpeaker(n, v, c, TRUE)
    \/ \E n \in Speakers : RemoveSpeaker(n)
    \/ RebuildFromDb
    \/ \E e \in JsonLibraries : MigrateJson(e)

Spec == Init /\ [][Next]_vars

\* enrolments only: every behaviour is a sequence of add_speaker calls on one
\* sqlite-backed library
NextEnrol ==
    \E n \in Speakers, v \in RawVectors, c \in Clips : AddSpeaker(n, v, c, TRUE)

SpecEnrol == Init /\ [][NextEnrol]_vars

\* what the extractor answers in the runs that identify
IdentifyVectors == {<<1, 0>>, <<0, 1>>, <<-1, 0>>, <<2>>}

\* enrolments and identifications on one sqlite-backed library
NextIdentify ==
    \/ /\ calls < MaxEnrol
       /\ \E n \in Speakers, v \in IdentifyVectors, c \in Clips :
              AddSpeaker(n, v, c, TRUE)
    \/ /\ calls <= MaxEnrol
       /\ \E q \in Queries, t \in Thresholds, d \in TargetDates :
              Identify(q, t, d)

SpecIdentify == Init /\ [][NextIdentify]_vars

\* enrolments, then one writer that rewrites the centroids statement by
\* statement beside a reader
NextTxn ==
    \/ /\ calls < MaxEnrol
       /\ txn.pc \in {"idle", "selected"}
       /\ \E n \in Speakers, v \in RawVectors, c \in Clips :
              AddSpeaker(n, v, c, TRUE)
    \/ RebuildSelect
    \/ RebuildDelete
    \/ \E e \in ReplaceMaps : ReplaceBegin(e)
    \/ TxnStatement
    \/ TxnCommit
    \/ TxnRollback
    \/ LoadCentroidsRead

SpecTxn == Init /\ [][NextTxn]_vars

\* two processes, one enrolment each, their transactions in any order
NextPair ==
    \E i \in Instances :
        \/ PairOpen(i)
        \/ \E v \in RawVectors, c \in {ClipA, ClipB} : PairUpsert(i, v, c)
        \/ PairSave(i)

SpecPair == Init /\ [][NextPair]_vars

\* enrolments, rebuilds and verifications of the store
NextVerify ==
    \/ /\ calls < MaxEnrol
       /\ \E n \in Speakers, v \in RawVectors, c \in Clips : AddSpeaker(n, v, c, TRUE)
    \/ /\ calls <= MaxEnrol
       /\ last.op # "verify_integrity"
       /\ \E b \in SUPPORTED_BACKENDS, t \in VoiceSampleTables, f \in FileSystems :
              VerifyIntegrity(b, t, f)

SpecVerify == Init /\ [][NextVerify]_vars

\* the store's operations, called for either backend on one database
NextStore ==
    \/ \E b \in SUPPORTED_BACKENDS, n \in Speakers, v \in StoreVectors,
          c \in {ClipA, ClipBite} : StoreUpsert(b, n, v, c)
    \/ \E b \in SUPPORTED_BACKENDS, e \in JsonLibraries \cup {<<>>} :
          StoreReplace(b, e)
    \/ \E b \in SUPPORTED_BACKENDS, e \in JsonLibraries : StoreImport(b, e)
    \/ \E b \in SUPPORTED_BACKENDS : StoreRebuild(b)
    \/ \E b \in SUPPORTED_BACKENDS, n \in Speakers : StoreDelete(b, n)
    \/ \E b \in SUPPORTED_BACKENDS, n \in Speakers : StoreClear(b, n)

SpecStore == Init /\ [][NextStore]_vars

\* enrolments after a long history of dated enrolments
NextDates ==
    \E n \in Speakers, v \in StoreVectors, c \in Clips, u \in BOOLEAN :
        AddDated(n, v, c, u)

SpecDates == InitDates /\ [][NextDates]_vars

\* one harvest run on an empty store
NextHarvest ==
    \/ \E total \in 0..MaxEpisodes, dry_run \in BOOLEAN : HarvestStart(total, dry_run)
    \/ \E id \in 1..MaxEpisodes : \E ep \in EpisodeRows(id) : HarvestEpisode(ep)
    \/ HarvestReport

SpecHarvest == Init /\ [][NextHarvest]_vars

\* one writer: add_speaker and remove_speaker calls on one sqlite-backed library
NextWriter ==
    \/ \E n \in Speakers, v \in RawVectors, c \in Clips : AddSpeaker(n, v, c, TRUE)
    \/ \E n \in Speakers : RemoveSpeaker(n)

SpecWriter == Init /\ [][NextWriter]_vars

\* enrolments of clips that differ in single provenance keywords
NextKeys ==
    \E n \in Speakers, v \in StoreVectors, c \in KeyClips : AddKeyed(n, v, c)

SpecKeys == Init /\ [][NextKeys]_vars

\* enrolments that succeed and enrolments that fail
NextFail ==
    \/ /\ calls < MaxEnrol
       /\ \E n \in Speakers, v \in RawVectors, c \in {ClipA, ClipB} :
              AddSpeaker(n, v, c, TRUE)
    \/ /\ calls <= MaxEnrol
       /\ \E n \in Speakers \cup {BlankName}, v \in RawVectors, c \in {ClipA, ClipB},
             at \in RaisePoints :
              AddSpeakerRaising(n, v, c, TRUE, at)

SpecFail == Init /\ [][NextFail]_vars

\* enrolments and identifications of the labels of a diarization; an
\* identification leaves the library as it is, so one in a row is enough
NextDiarize ==
    \/ /\ calls < MaxEnrol
       /\ \E n \in Speakers, v \in RawVectors, c \in {ClipA, ClipB} :
              AddSpeaker(n, v, c, TRUE)
    \/ /\ calls <= MaxEnrol
       /\ last.op # "diarize"
       /\ \E s \in Diarizations, w \in WaveLengths, d \in {NoneV, "2024-01-01"},
             r \in BOOLEAN :
              \E f \in FailSets(s) : Diarize(s, w, f, d, r)

SpecDiarize == Init /\ [][NextDiarize]_vars

\* the turns a diarization is made of: two labels, contiguous, overlapping
\* and separated intervals
AlignTurns ==
    {[speaker |-> l, start |-> iv[1], end |-> iv[2]] :
        l \in {"SPEAKER_00", "SPEAKER_01"},
        iv \in {<<0, 2000>>, <<2000, 4000>>, <<1000, 3000>>, <<5000, 6000>>}}

\* the output of diarize(): segments and the sorted labels
Diarized(segments) ==
    LET labels == {segments[i].speaker : i \in 1..Len(segments)}
    IN  [segments |-> segments,
         speakers |-> SelectSeq(<<"SPEAKER_00", "SPEAKER_01">>, LAMBDA l : l \in labels)]

MaxTurns == 2

AlignDiarizations ==
    {Diarized(s) : s \in UNION {[1..n -> AlignTurns] : n \in 0..MaxTurns}}

\* a faster-whisper transcript with midpoints 1 s, 2 s and 4.5 s, a
\* whisper-cli transcript with midpoints 5.5 s and (one timestamp without
\* colons) 1.5 s, and a transcript without segments
Transcripts ==
    {[segments |-> <<[start |-> 0, end |-> 2000, text |-> "a"],
                     [start |-> 1000, end |-> 3000, text |-> "b"],
                     [start |-> 4000, end |-> 5000, text |-> "c"]>>],
     [transcription |-> <<[timestamps |-> [from |-> <<0, 0, 5000>>,
                                           to |-> <<0, 0, 6000>>], text |-> "d"],
                          [timestamps |-> [from |-> <<0>>,
                                           to |-> <<0, 0, 3000>>], text |-> "e"]>>],
     [text |-> "f"]}

\* what identify_speakers returns: nothing, or names and confidences
SpeakerMappings ==
    {[l \in {} |-> NoneV],
     [l \in {"SPEAKER_00"} |-> [name |-> "Matt", confidence |-> 850]],
     [l \in {"SPEAKER_00", "SPEAKER_01"} |->
         IF l = "SPEAKER_00" THEN [name |-> "Matt", confidence |-> 850]
         ELSE [name |-> NoneV, confidence |-> 300]]}

MaxAlign == 1

\* align_with_transcript
Align(diarization, transcript, speaker_mapping) ==
    /\ calls < MaxAlign
    /\ calls' = calls + 1
    /\ last' = [op |-> "align", diarization |-> diarization,
                transcript |-> transcript, speaker_mapping |-> speaker_mapping,
                ret |-> AlignWithTranscript(diarization, transcript, speaker_mapping)]
    /\ UNCHANGED <<db, plan, batch, pair, lib, txn>>

NextAlign ==
    \E d \in AlignDiarizations, t \in Transcripts, m \in SpeakerMappings :
        Align(d, t, m)

SpecAlign == Init /\ [][NextAlign]_vars

\* the weighted score, over similarities and distances in days
NextWeigh == \E s \in Similarities, d \in 0..MaxDays : WeighScore(s, d)

SpecWeigh == Init /\ [][NextWeigh]_vars

---------------------------------------------------------------------------
(* Views of the state the properties are stated on *)

\* the centroid rows of one backend, whatever the state of their model
BackendCentroids(d, backend) ==
    {r \in SeqToSet(d.centroids) : r.backend_model_id \in BackendModels(d.models, backend)}

\* the live sample rows of one backend
LiveSamples(d, backend) ==
    {r \in SeqToSet(d.samples) : r.backend_model_id \in ActiveModels(d.models, backend)}

RowsWithKey(d, key) == SelectSeq(d.samples, LAMBDA r : r.sample_key = key)

\* n times the vector v is the sum of the vectors of the rows in rs
IsMeanOf(v, n, rs) ==
    /\ n = Len(rs)
    /\ n > 0
    /\ VScale(v, n) = VSum([i \in 1..Len(rs) |-> rs[i].embedding_blob])

---------------------------------------------------------------------------
(* C1: after upsert_sample_embedding has run for a provenance key, also when *)
(* a row of that key was stored before, exactly one sample row has the key, *)
(* and its vector and norm are those of this call.                          *)
C1_IdempotentUpsert ==
    last.op = "add_speaker" =>
        LET rows == RowsWithKey(db, KeyOf(last.args))
        IN  /\ Len(rows) = 1
            /\ rows[1].embedding_blob = last.args.embedding
            /\ rows[1].embedding_norm = Norm(last.args.embedding)

\* the second upsert of the only key stored, with another vector than the first
C1_Witness ==
    /\ last.op = "add_speaker"
    /\ last.stored
    /\ Len(db.samples) = 1
    /\ HasName(lib.embeddings, last.name)
    /\ Entry(lib.embeddings, last.name).sample_count = 2
    /\ Entry(lib.embeddings, last.name).embedding # last.args.embedding
    /\ C1_IdempotentUpsert

(* C2: after any sequence of add_speaker calls for one speaker with vectors *)
(* of one dimension (here: and of one sample type), the library's running   *)
(* centroid and sample_count are those rebuild_centroids_from_samples       *)
(* computes from the stored samples.                                        *)
C2_IncrementalEqualsRebuild ==
    (/\ last.op = "add_speaker"
     /\ \A r \in SeqToSet(db.samples) :
            /\ r.speaker_name = last.name
            /\ r.sample_type = "speaker"
            /\ Dim(r.embedding_blob) = Dim(last.args.embedding)
     /\ \A e \in SeqToSet(lib.embeddings) : e.name = last.name)
    => LET rebuilt == LoadCentroids(
                          RebuildCentroidsFromSamples(db, lib.backend, plan)[1],
                          lib.backend, plan)
       IN  /\ HasName(rebuilt, last.name)
           /\ Entry(rebuilt, last.name).embedding
                  = Entry(lib.embeddings, last.name).embedding
           /\ Entry(rebuilt, last.name).sample_count
                  = Entry(lib.embeddings, last.name).sample_count

(* C3, as claimed: after rebuild_centroids_from_samples(backend) the       *)
(* backend has exactly one centroid per (speaker, sample_type) that has a   *)
(* live sample, with the mean of the group's vectors and the group's size;  *)
(* centroids_written is the number of centroids left; without live samples  *)
(* the counts are zero and no centroid remains.                             *)
C3_OnePerSpeakerAndType ==
    last.op = "rebuild" =>
        LET S == LiveSamples(db, last.backend)
            C == BackendCentroids(db, last.backend)
            Group(n, t) == SelectSeq(db.samples, LAMBDA r :
                               r \in S /\ r.speaker_name = n /\ r.sample_type = t)
        IN  /\ \A r \in S :
                  Cardinality({c \in C : c.speaker_name = r.speaker_name
                                         /\ c.sample_type = r.sample_type}) = 1
            /\ \A c \in C :
                  IsMeanOf(c.centroid_blob, c.sample_count,
                           Group(c.speaker_name, c.sample_type))
            /\ last.ret.centroids_written = Cardinality(C)
            /\ S = {} => /\ C = {}
                         /\ last.ret = [sample_rows |-> 0, group_count |-> 0,
                                        centroids_written |-> 0]

(* C3, amended: the groups are those of (embedding model, speaker,          *)
(* sample_type): one centroid per such group, under that model, with the    *)
(* mean of the group's vectors and the group's size.                        *)
C3_OnePerModelSpeakerAndType ==
    last.op = "rebuild" =>
        LET S == LiveSamples(db, last.backend)
            C == BackendCentroids(db, last.backend)
            Group(m, n, t) == SelectSeq(db.samples, LAMBDA r :
                                  r \in S /\ r.backend_model_id = m
                                  /\ r.speaker_name = n /\ r.sample_type = t)
        IN  /\ \A r \in S :
                  Cardinality({c \in C : c.backend_model_id = r.backend_model_id
                                         /\ c.speaker_name = r.speaker_name
                                         /\ c.sample_type = r.sample_type}) = 1
            /\ \A c \in C :
                  IsMeanOf(c.centroid_blob, c.sample_count,
                           Group(c.backend_model_id, c.speaker_name, c.sample_type))
            /\ last.ret.centroids_written = Cardinality(C)
            /\ Len(db.centroids) = Cardinality(SeqToSet(db.centroids))
            /\ S = {} => /\ C = {}
                         /\ last.ret = [sample_rows |-> 0, group_count |-> 0,
                                        centroids_written |-> 0]

\* a rebuild that averaged two different vectors of one group
C3_Witness ==
    /\ last.op = "rebuild"
    /\ last.ret.sample_rows = 2
    /\ \E c \in BackendCentroids(db, last.backend) :
           c.sample_count = 2 /\ c.centroid_blob.den = 2
    /\ C3_OnePerModelSpeakerAndType

\* a rebuild that found no sample and removed the centroids there were
C3_WitnessEmpty ==
    /\ last.op = "rebuild"
    /\ last.ret.sample_rows = 0
    /\ lib.embeddings # <<>>
    /\ BackendCentroids(db, last.backend) = {}

\* what a rebuild writes for each group: model, speaker, type, vector, count
RebuiltGroups(d, backend, p) ==
    {<<r.backend_model_id, r.speaker_name, r.sample_type, r.centroid_blob,
       r.sample_count>> :
        r \in BackendCentroids(RebuildCentroidsFromSamples(d, backend, p)[1], backend)}

Permuted(s, f) == [i \in 1..Len(s) |-> s[f[i]]]

Stored(r) ==
    [speaker_name |-> r.speaker_name, sample_type |-> r.sample_type,
     embedding |-> r.centroid_blob, sample_count |-> r.sample_count,
     sample_dates |-> r.sample_dates_json]

StoredCentroids(d, backend) == {Stored(r) : r \in BackendCentroids(d, backend)}

Names(embeddings) == {embeddings[i].name : i \in 1..Len(embeddings)}

(* C6: import_centroids_missing_only(backend, map) keeps every centroid     *)
(* stored for the backend as it was (vector, sample_type, sample_count,     *)
(* sample dates), adds exactly the speakers of map that had no centroid,    *)
(* and returns the number added (0 and no change when all are present).     *)
C6_ImportKeepsStored ==
    [][last'.op = "import" =>
          LET before == StoredCentroids(db, last'.backend)
              after == StoredCentroids(db', last'.backend)
              had == {c.speaker_name : c \in before}
              new == Names(last'.embeddings) \ had
          IN  /\ before \subseteq after
              /\ {c.speaker_name : c \in after} = had \cup new
              /\ \A c \in after \ before :
                     /\ c.speaker_name \in new
                     /\ \E e \in SeqToSet(last'.embeddings) :
                            /\ e.name = c.speaker_name
                            /\ e.embedding = c.embedding
                            /\ e.sample_count = c.sample_count
              /\ last'.ret = Cardinality(new)
              /\ (new = {}) => db' = db]_vars

\* the centroid fields a snapshot carries for each speaker
Snapshot(embeddings) ==
    {[name |-> e.name, embedding |-> e.embedding, sample_count |-> e.sample_count,
      sample_dates |-> e.sample_dates, sample_type |-> e.sample_type] :
        e \in SeqToSet(embeddings)}

\* export, then import of the exported speakers into an empty store read with
\* the scan order p: what load_centroids returns there
RoundTrip(d, backend, p) ==
    LoadCentroids(
        ImportCentroidsMissingOnly(
            EmptyDb, backend, ExportCentroidsToJson(d, backend, plan).speakers, p)[1],
        backend, p)

(* C7: exporting the backend's centroids with export_centroids_to_json and  *)
(* importing the exported speakers into an empty store with                 *)
(* import_centroids_missing_only gives a store whose load_centroids has the *)
(* same speakers with the same vector, sample_count, sample_dates and       *)
(* sample_type as the export.                                               *)
C7_RoundTrip ==
    \A p \in {"rowid", "index"} :
        /\ Snapshot(RoundTrip(db, lib.backend, p))
               = Snapshot(ExportCentroidsToJson(db, lib.backend, plan).speakers)
        /\ Len(RoundTrip(db, lib.backend, p))
               = Len(ExportCentroidsToJson(db, lib.backend, plan).speakers)

\* an export of two speakers, one a sound bite, one with a mean of several
\* samples and with dates
C7_Witness ==
    LET e == ExportCentroidsToJson(db, lib.backend, plan).speakers
    IN  /\ Len(e) = 2
        /\ \E i \in 1..2 : e[i].sample_type = "sound_bite"
        /\ \E i \in 1..2 : e[i].sample_count > 1 /\ e[i].sample_dates # <<>>
        /\ C7_RoundTrip

(* C8: when add_speaker gets a vector whose dimension differs from the      *)
(* speaker's centroid, the call succeeds, the speaker's centroid is then    *)
(* the new vector with sample_count 1 and only the new sample's date, in    *)
(* the library and in what load_centroids returns, no centroid of the old   *)
(* dimension is returned for the speaker any more, and the other speakers'  *)
(* centroids are unchanged.                                                 *)
C8_DimensionReset ==
    [][(last'.op = "add_speaker" /\ last'.known /\ ~last'.update) =>
          LET n == last'.name
              v == last'.args.embedding
              dates == IF last'.args.sample_date = NoneV THEN <<>>
                       ELSE <<last'.args.sample_date>>
              loaded == LoadCentroids(db', lib'.backend, plan')
              Fresh(e) == /\ e.embedding = v
                          /\ e.sample_count = 1
                          /\ e.sample_dates = dates
          IN  /\ last'.ret
              /\ HasName(lib'.embeddings, n) /\ Fresh(Entry(lib'.embeddings, n))
              /\ HasName(loaded, n) /\ Fresh(Entry(loaded, n))
              /\ \A e \in SeqToSet(lib.embeddings) :
                     e.name # n => e \in SeqToSet(lib'.embeddings)]_vars

\* the centroids identify_speaker scores: those of the query's shape whose
\* cosine with the query is a number
Candidates(embeddings, embedding, target_date) ==
    {e \in SeqToSet(embeddings) :
        /\ Dim(e.embedding) = Dim(embedding)
        /\ Adjusted(e, embedding, target_date) # <<>>}

\* the scores of the candidates of the last identify_speaker call
LastScores ==
    {Adjusted(e, last.embedding, last.target_date)[1] :
        e \in Candidates(lib.embeddings, last.embedding, last.target_date)}

C10_BestScoreReported ==
    (last.op = "identify" /\ LastScores # {}
     /\ \A x \in LastScores : x < last.threshold)
    => /\ last.ret.name = NoneV
       /\ last.ret.score \in LastScores
       /\ \A x \in LastScores : x <= last.ret.score
       /\ last.ret # IdentifySpeaker(<<>>, last.embedding, last.threshold,
                                     last.target_date)

\* the database a writer leaves when its call runs alone on t.start
Outcome(t) ==
    IF t.op = "rebuild" THEN RebuildFromRows(t.start, t.backend, t.rows)[1]
    ELSE ReplaceCentroids(t.start, t.backend, t.embeddings)

(* C5: while rebuild_centroids_from_samples or replace_centroids runs, a    *)
(* load_centroids of the same backend returns the complete set of before    *)
(* the call or the complete set of after it; no step of the running call    *)
(* leaves anything else in the database than the one or the other.          *)
C5_AtomicReplacement ==
    /\ []((last.op = "load_centroids" /\ last.txn.pc = "open") =>
            last.ret \in {LoadCentroids(last.txn.start, last.backend, plan),
                          LoadCentroids(Outcome(last.txn), last.backend, plan)})
    /\ [][txn.pc = "open" => db' \in {txn.start, Outcome(txn)}]_vars

\* a load_centroids between two statements of a writer that has deleted the
\* old centroids and written one of the two new ones
C5_Witness ==
    /\ last.op = "load_centroids"
    /\ last.txn.pc = "open"
    /\ Len(last.txn.todo) = 1
    /\ Len(last.txn.work.centroids) = 1
    /\ Len(last.txn.start.centroids) = 2
    /\ last.txn.work.centroids # Outcome(last.txn).centroids
    /\ Len(last.ret) = 2
    /\ last.ret = LoadCentroids(last.txn.start, last.backend, plan)


\* the centroids of the library that have the shape of the vector
SameShape(embeddings, embedding) ==
    SelectSeq(embeddings, LAMBDA e : Dim(e.embedding) = Dim(embedding))

LastIdentical == {e \in SeqToSet(lib.embeddings) : e.embedding = last.embedding}

\* the query of the last call is orthogonal to every centroid of its shape
LastOrthogonal ==
    \A e \in SeqToSet(SameShape(lib.embeddings, last.embedding)) :
        Dot(e.embedding.num, last.embedding.num) = 0

C12_WitnessOrthogonal ==
    /\ last.op = "identify"
    /\ last.threshold = 500
    /\ Len(SameShape(lib.embeddings, last.embedding)) = 2
    /\ \A e \in SeqToSet(lib.embeddings) : Dot(e.embedding.num, e.embedding.num) # 0
    /\ LastOrthogonal
    /\ last.ret = [name |-> NoneV, score |-> 0]


\* the positions, in the iteration order of the library, of the candidates of
\* the last identify_speaker call that have the largest score
LastTied ==
    {i \in 1..Len(lib.embeddings) :
        /\ lib.embeddings[i] \in Candidates(lib.embeddings, last.embedding,
                                            last.target_date)
        /\ \A x \in LastScores :
               x <= Adjusted(lib.embeddings[i], last.embedding, last.target_date)[1]}

(* C13: a name identify_speaker returns is the first, in the iteration      *)
(* order of the library's centroid map, of the candidates that share the    *)
(* largest weighted score; and a repeated call with the same query on the   *)
(* unchanged library returns the same pair.                                 *)
C13_DeterministicTieBreak ==
    /\ []((last.op = "identify" /\ last.ret.name # NoneV) =>
            /\ LastTied # {}
            /\ \E i \in LastTied :
                   /\ lib.embeddings[i].name = last.ret.name
                   /\ \A j \in LastTied : i <= j)
    /\ [][(/\ last.op = "identify" /\ last'.op = "identify"
           /\ last'.embedding = last.embedding
           /\ last'.threshold = last.threshold
           /\ last'.target_date = last.target_date
           /\ lib' = lib) => last'.ret = last.ret]_vars

\* two centroids tie at the score returned, and the first of them is named
C13_Witness ==
    /\ last.op = "identify"
    /\ Cardinality(LastTied) = 2
    /\ last.ret.name = lib.embeddings[1].name
    /\ last.ret.score > 0


(* C14, as claimed: for any fixed cosine similarity the weighted score      *)
(* strictly decreases when the distance in days between the target date and *)
(* the mean sample date grows, and stays above half the similarity.         *)
C14_WeightMonotone ==
    last.op = "weigh" =>
        /\ Weighted(last.similarity, DaysWeight(last.days + 1)) < last.score
        /\ 2 * last.score > last.similarity * Milli

(* C14, amended: for a fixed positive similarity the weighted score         *)
(* strictly decreases with the distance in days and stays above half the    *)
(* similarity; for a negative similarity it strictly increases and stays    *)
(* below half the similarity; for similarity 0 it is 0 at every distance.   *)
C14_WeightMonotoneBySign ==
    last.op = "weigh" =>
        LET next == Weighted(last.similarity, DaysWeight(last.days + 1))
        IN  /\ last.similarity > 0 =>
                  /\ next < last.score
                  /\ 2 * last.score > last.similarity * Milli
            /\ last.similarity < 0 =>
                  /\ next > last.score
                  /\ 2 * last.score < last.similarity * Milli
            /\ last.similarity = 0 => (last.score = 0 /\ next = 0)

\* a positive similarity a year from the mean sample date: 0.684 times 0.707
C14_Witness ==
    /\ last.op = "weigh"
    /\ last.similarity = 707
    /\ last.days = 365
    /\ last.score > 483000
    /\ last.score < 484000
    /\ Weighted(last.similarity, DaysWeight(0)) = 707 * Milli


\* the labels of the last identify_speakers_in_diarization call
LastLabels == SeqToSet(SpeakerLabels(last.segments, <<>>))

\* the turns of a label, and how many of them are longer than a turn or as
\* long and earlier in the list
TurnsOf(segments, l) == {i \in 1..Len(segments) : segments[i].speaker = l}

Ahead(segments, i) ==
    Cardinality({j \in TurnsOf(segments, segments[i].speaker) :
        \/ Duration(segments[j]) > Duration(segments[i])
        \/ Duration(segments[j]) = Duration(segments[i]) /\ j < i})

\* the 5 longest turns of a label that have 16000 samples in the waveform
Chosen(l) ==
    {i \in TurnsOf(last.segments, l) :
        /\ Ahead(last.segments, i) < TopTurns
        /\ AudioSamples(last.segments[i], last.wave_len) >= MinSamples}

\* the turns of the last call given to the extractor, and how many
ExtractedOf(l) == {s \in SeqToSet(last.extracted) : s.speaker = l}

ExtractedCount(l) ==
    Cardinality({k \in 1..Len(last.extracted) : last.extracted[k].speaker = l})

\* the sum of the voices of a set of turns of the last call
RECURSIVE VoiceSum(_)
VoiceSum(S) ==
    IF S = {} THEN AsVec(<<0, 0>>)
    ELSE LET i == CHOOSE x \in S : TRUE
         IN  VAdd(AsVec(last.segments[i].voice), VoiceSum(S \ {i}))

\* the turns given to the extractor are the chosen ones, once each, and the
\* label's answer is the identification of the mean of their embeddings
SelectionHolds(l) ==
    LET used == {i \in Chosen(l) : last.segments[i] \notin last.fails}
        found == IdentifySpeaker(lib.embeddings,
                     VDiv(VoiceSum(used), Cardinality(used)),
                     Milli \div 2, last.episode_date)
    IN  /\ ExtractedOf(l) = {last.segments[i] : i \in Chosen(l)}
        /\ ExtractedCount(l) = Cardinality(Chosen(l))
        /\ \A e \in SeqToSet(last.ret) :
               e.label = l =>
                   e.name = IF used = {} THEN NoneV ELSE found.name
        /\ (used # {} /\ found.name # NoneV) =>
               \E e \in SeqToSet(last.ret) : e.label = l

(* C15 as stated: after any identify_speakers_in_diarization call, for each *)
(* label of the diarization the turns handed to the embedding extractor are *)
(* exactly those of the label's 5 longest turns whose audio in the waveform *)
(* has at least 16000 samples, and no other turn contributes.               *)
C15_SegmentSelection ==
    last.op = "diarize" => \A l \in LastLabels : SelectionHolds(l)

(* C15 amended: the same on a library that holds at least one speaker; on   *)
(* an empty library the call returns before any turn is selected.           *)
C15_SegmentSelectionNonEmpty ==
    /\ (last.op = "diarize" /\ lib.embeddings # <<>>) =>
           \A l \in LastLabels : SelectionHolds(l)
    /\ (last.op = "diarize" /\ lib.embeddings = <<>>) =>
           last.extracted = <<>> /\ last.ret = <<>>

\* the label with a turn of 0.8 s and a turn of 6 s is embedded from the 6 s
\* turn only and identified as the speaker enrolled with that voice
C15_Witness ==
    /\ last.op = "diarize"
    /\ last.segments = TurnsTwo
    /\ last.fails = {}
    /\ last.extracted = <<TurnsTwo[2]>>
    /\ \E e \in SeqToSet(last.ret) :
           /\ e.label = "SPEAKER_00"
           /\ e.name # NoneV
           /\ Entry(lib.embeddings, e.name).embedding = AsVec(TurnsTwo[2].voice)

\* a label with seven turns in the waveform that holds them all: five are
\* handed over, the sixth longest, of one second, is not
C15_WitnessTopFive ==
    /\ last.op = "diarize"
    /\ last.segments = TurnsMany
    /\ lib.embeddings # <<>>
    /\ ExtractedCount("SPEAKER_01") = TopTurns
    /\ TurnsMany[2] \notin SeqToSet(last.extracted)


\* the labels of the last call without a usable turn: every selected turn is
\* shorter than a second in the waveform, or its extraction raises
Unusable ==
    {l \in LastLabels : \A i \in Chosen(l) : last.segments[i] \in last.fails}

\* the entries of a returned dict for a label
EntriesOf(ret, l) == {e \in SeqToSet(ret) : e.label = l}

\* the call on the same diarization without the turns of the labels in ls
Without(ls) ==
    IdentifySpeakersInDiarization(lib.embeddings,
        SelectSeq(last.segments, LAMBDA s : s.speaker \notin ls),
        last.wave_len, last.fails, last.episode_date, last.return_scores)

C16_WitnessScores ==
    /\ last.op = "diarize"
    /\ last.return_scores
    /\ lib.embeddings # <<>>
    /\ \E l \in Unusable : EntriesOf(last.ret, l) # {}


\* the positions of the callback's calls among the calls of the last loop
ProgressAt == {k \in 1..Len(last.events) : last.events[k].call = "progress"}

\* the labels whose turns were given to the extractor before position k
LabelsBefore(k) ==
    {last.events[j].turn.speaker :
        j \in {x \in 1..(k - 1) : last.events[x].call = "extract"}}

(* C17: when identify_speakers_in_diarization runs with a progress callback *)
(* on a non-empty library and L >= 1 labels, the callback is called exactly *)
(* L times, once after each label has been handled, labels that yield no    *)
(* embedding included, with non-decreasing percentages of the labels        *)
(* processed, and the last value is 100.                                    *)
C17_ProgressPerLabel ==
    (last.op = "diarize" /\ lib.embeddings # <<>> /\ LastLabels # {}) =>
        LET L == Cardinality(LastLabels)
            labels == SpeakerLabels(last.segments, <<>>)
        IN  /\ Cardinality(ProgressAt) = L
            /\ Len(last.progress) = L
            /\ \A i \in 1..L :
                   /\ last.progress[i] = (100 * i) \div L
                   /\ \E k \in ProgressAt :
                          /\ last.events[k].value = last.progress[i]
                          /\ Cardinality({j \in ProgressAt : j < k}) = i - 1
                          /\ LabelsBefore(k) \subseteq {labels[j] : j \in 1..i}
                          /\ \A j \in k..Len(last.events) :
                                 last.events[j].call = "extract" =>
                                     last.events[j].turn.speaker
                                         \notin {labels[x] : x \in 1..i}
            /\ \A i, j \in 1..L : i <= j => last.progress[i] <= last.progress[j]
            /\ last.progress[L] = 100
            /\ last.events[Len(last.events)].call = "progress"

\* three labels, two of them without an embedding: three calls, 33, 66, 100
C17_Witness ==
    /\ last.op = "diarize"
    /\ lib.embeddings # <<>>
    /\ Cardinality(LastLabels) = 3
    /\ Cardinality(Unusable) = 2
    /\ last.progress = <<33, 66, 100>>


\* the diarization labels of the last align_with_transcript call
AlignLabels ==
    {last.diarization.segments[i].speaker :
        i \in 1..Len(last.diarization.segments)}

\* the turns of the last call that contain the midpoint of a segment
TurnsAtMid(t_seg) ==
    {i \in 1..Len(last.diarization.segments) :
        LET s == last.diarization.segments[i]
        IN  /\ 2 * s.start <= SegStart(t_seg) + SegEnd(t_seg)
            /\ SegStart(t_seg) + SegEnd(t_seg) <= 2 * s.end}

(* C18: after align_with_transcript every transcript segment carries a     *)
(* speaker field equal to the label of the first diarization turn, in list  *)
(* order, whose closed interval [start, end] contains the segment's         *)
(* midpoint (t_start + t_end) / 2, or UNKNOWN when no turn contains it; the *)
(* field is a diarization label or UNKNOWN, never a resolved speaker name.  *)
C18_MidpointFirstMatch ==
    last.op = "align" =>
        LET before == TranscriptSegments(last.transcript)
        IN  /\ Len(last.ret.segments) = Len(before)
            /\ \A k \in 1..Len(before) :
                   LET after == last.ret.segments[k]
                       at == TurnsAtMid(before[k])
                   IN  /\ "speaker" \in DOMAIN after
                       /\ \A f \in DOMAIN before[k] : after[f] = before[k][f]
                       /\ at = {} => after.speaker = "UNKNOWN"
                       /\ at # {} =>
                              after.speaker =
                                  last.diarization.segments[
                                      CHOOSE i \in at : \A j \in at : i <= j].speaker
                       /\ after.speaker \in AlignLabels \cup {"UNKNOWN"}
                       /\ \A l \in DOMAIN last.ret.speaker_names :
                              after.speaker # last.ret.speaker_names[l]

\* two turns of different labels contain the midpoint of a segment and the
\* segment gets the first one's label, which the mapping resolves to a name;
\* another segment lies in no turn
C18_Witness ==
    /\ last.op = "align"
    /\ \E k \in 1..Len(last.ret.segments) :
           LET at == TurnsAtMid(TranscriptSegments(last.transcript)[k])
           IN  /\ Cardinality(at) = 2
               /\ last.diarization.segments[1].speaker = "SPEAKER_00"
               /\ last.diarization.segments[2].speaker = "SPEAKER_01"
               /\ last.ret.segments[k].speaker = "SPEAKER_00"
    /\ "SPEAKER_00" \in DOMAIN last.ret.speaker_names
    /\ \E k \in 1..Len(last.ret.segments) : last.ret.segments[k].speaker = "UNKNOWN"


(* C19: an enrolment whose write fails part-way leaves nothing behind:      *)
(* after upsert_sample_embedding raises, neither the sample row nor a model *)
(* row created for it persists, and after add_speaker returns False the     *)
(* stored samples, the stored centroids and the in-memory centroids are     *)
(* what they were before the call.                                          *)
C19_FailedEnrolmentLeavesNothing ==
    (last.op = "add_speaker" /\ ~last.ret) =>
        /\ last.at = "upsert" => db = last.before.db
        /\ db.samples = last.before.db.samples
        /\ db.centroids = last.before.db.centroids
        /\ lib.embeddings = last.before.embeddings

\* the part of C19 about upsert_sample_embedding alone
UpsertRollsBack ==
    (last.op = "add_speaker" /\ ~last.ret /\ last.at \in {"exists", "extract", "upsert"})
        => db = last.before.db /\ lib.embeddings = last.before.embeddings

\* a failed upsert that had inserted a model row
UpsertRollsBackWitness ==
    /\ last.op = "add_speaker" /\ ~last.ret /\ last.at = "upsert"
    /\ ~HasModel(db.models, lib.backend, Dim(last.args.embedding))


\* both processes have returned from add_speaker
PairDone == \A i \in Instances : pair[i].pc = "saved"

\* the speakers with a centroid of the default backend in the store
CentroidNames ==
    {r.speaker_name : r \in BackendCentroids(db, DEFAULT_BACKEND)}

(* C20: when two VoiceLibrary instances opened on the same store each enrol *)
(* a sample for a different speaker, in any interleaving of their loads and *)
(* writes, the store afterwards holds both samples and a centroid for each  *)
(* of the two speakers.                                                     *)
C20_InterleavedEnrolments ==
    PairDone =>
        /\ \A i \in Instances : HasSample(db.samples, KeyOf(pair[i].args))
        /\ \A i \in Instances : PairName(i) \in CentroidNames

\* the part of C20 about the samples alone
PairSamplesKept ==
    PairDone => \A i \in Instances : HasSample(db.samples, KeyOf(pair[i].args))

\* both processes are done and the second one had opened the store after the
\* first one's enrolment: both centroids are stored
PairBothStored ==
    PairDone /\ \A i \in Instances : PairName(i) \in CentroidNames


(* C21: verify_integrity is read-only and its verdict is exact: the call    *)
(* changes no sample, centroid or model row, and its report has ok = true   *)
(* exactly when the orphaned-sample count, the speakers-without-centroid    *)
(* count and both missing-file counts are all zero.                         *)
C21_VerifyReadOnlyExact ==
    last.op = "verify_integrity" =>
        /\ db = last.before
        /\ ~last.raised =>
               (last.ret.ok <=>
                   /\ last.ret.orphan_embedding_sample_rows = 0
                   /\ last.ret.speakers_without_centroid = 0
                   /\ last.ret.missing_voice_sample_files = 0
                   /\ last.ret.missing_embedding_sample_files = 0)

\* a store with samples is verified and only a file of the application's
\* table is missing: the verdict is false
C21_Witness ==
    /\ last.op = "verify_integrity" /\ ~last.raised
    /\ last.ret.sample_rows > 0
    /\ last.ret.orphan_embedding_sample_rows = 0
    /\ last.ret.speakers_without_centroid = 0
    /\ last.ret.missing_embedding_sample_files = 0
    /\ last.ret.missing_voice_sample_files = 1
    /\ ~last.ret.ok

\* a store with samples passes the verification
C21_WitnessOk ==
    /\ last.op = "verify_integrity" /\ ~last.raised
    /\ last.ret.sample_rows = 2
    /\ last.ret.ok


\* the stored samples of one speaker, sample type and model, in row order
GroupSamples(d, name, type, model_id) ==
    SelectSeq(d.samples, LAMBDA r : /\ r.speaker_name = name
                                    /\ r.sample_type = type
                                    /\ r.backend_model_id = model_id)

\* every enrolment so far stored a new sample row with vectors of one size:
\* no sample was submitted twice and no centroid was reset
PlainEnrolments ==
    /\ last.op = "add_speaker"
    /\ last.ret
    /\ Len(db.samples) = calls
    /\ \A i, j \in 1..Len(db.samples) :
           Dim(db.samples[i].embedding_blob) = Dim(db.samples[j].embedding_blob)

(* C22: samples of type speaker and of type sound_bite enrolled under one   *)
(* speaker name never contribute to the same centroid: after add_speaker    *)
(* calls that each stored a new sample, every (speaker, sample_type) with   *)
(* samples has its own stored centroid, the mean of that type's samples.    *)
C22_TypesAggregatedSeparately ==
    PlainEnrolments =>
        \A i \in 1..Len(db.samples) :
            LET s == db.samples[i]
            IN  \E c \in SeqToSet(db.centroids) :
                    /\ c.speaker_name = s.speaker_name
                    /\ c.sample_type = s.sample_type
                    /\ c.backend_model_id = s.backend_model_id
                    /\ IsMeanOf(c.centroid_blob, c.sample_count,
                                GroupSamples(db, s.speaker_name, s.sample_type,
                                             s.backend_model_id))

\* the same for enrolments of one sample type: the part of C22 that holds
TypesAloneAggregated ==
    (PlainEnrolments
     /\ \A i \in 1..Len(db.samples) : db.samples[i].sample_type = "speaker")
        => C22_TypesAggregatedSeparately


StoreOps ==
    {"upsert_sample_embedding", "replace_centroids",
     "import_centroids_missing_only", "rebuild_centroids_from_samples",
     "delete_speaker", "clear_speaker_samples"}

\* the rows of table t that belong to a model of one backend, in row order
RowsOfBackend(t, models, backend) ==
    SelectSeq(t, LAMBDA r : models[r.backend_model_id].backend = backend)

\* the model rows of one backend, with their ids
ModelsOfBackend(models, backend) ==
    {<<i, models[i]>> : i \in {j \in 1..Len(models) : models[j].backend = backend}}

OtherBackendKept(before, after, backend) ==
    /\ ModelsOfBackend(after.models, backend) = ModelsOfBackend(before.models, backend)
    /\ RowsOfBackend(after.samples, after.models, backend)
          = RowsOfBackend(before.samples, before.models, backend)
    /\ RowsOfBackend(after.centroids, after.models, backend)
          = RowsOfBackend(before.centroids, before.models, backend)

(* C23: a store operation called for one backend adds, changes and removes *)
(* no sample row and no centroid row (and no model row) of another backend. *)
C23_BackendIsolation ==
    last.op \in StoreOps =>
        \A b \in SUPPORTED_BACKENDS \ {last.backend} :
            OtherBackendKept(last.before, db, b)

\* an operation removed rows of its own backend while the other backend holds
\* samples and centroids
C23_Witness ==
    /\ last.op \in {"rebuild_centroids_from_samples", "delete_speaker",
                    "replace_centroids"}
    /\ db # last.before
    /\ Len(db.samples) + Len(db.centroids)
          < Len(last.before.samples) + Len(last.before.centroids)
    /\ \E b \in SUPPORTED_BACKENDS \ {last.backend} :
           RowsOfBackend(db.samples, db.models, b) # <<>>
           \/ RowsOfBackend(db.centroids, db.models, b) # <<>>


\* sample_dates of a speaker in a library map, <<>> when the speaker is not in it
DatesOf(embeddings, name) ==
    IF HasName(embeddings, name) THEN Entry(embeddings, name).sample_dates ELSE <<>>

\* the list after one more date arrived: the most recent DateHistory dates
Arrived(dates, date) ==
    LET all == Append(dates, date)
        evicted == Len(all) - DateHistory
    IN  IF date = NoneV THEN dates
        ELSE IF evicted <= 0 THEN all
        ELSE [i \in 1..DateHistory |-> all[i + evicted]]

(* C24 as stated: after every add_speaker call the speaker's sample_dates   *)
(* is the list before the call with the call's normalized date appended,    *)
(* cut to the most recent 100, and is unchanged when the call has no valid  *)
(* date.                                                                     *)
C24_DateHistoryAnyCall ==
    [][last'.op = "add_speaker" =>
          DatesOf(lib'.embeddings, last'.name)
              = Arrived(DatesOf(lib.embeddings, last'.name),
                        last'.args.sample_date)]_vars

(* C24: after an add_speaker call that updates the speaker's entry (or adds *)
(* a new speaker) the sample_dates list has at most 100 entries and is the  *)
(* list before the call with the call's normalized date appended, the       *)
(* oldest entries evicted, unchanged when the call has no valid date; a     *)
(* call that replaces or resets the entry restarts the list with its own    *)
(* date only.  The lists of the other speakers stay as they are.            *)
C24_DateHistoryBounded ==
    [][last'.op = "add_speaker" =>
          LET name == last'.name
              date == last'.args.sample_date
              old == DatesOf(lib.embeddings, name)
              new == DatesOf(lib'.embeddings, name)
          IN  /\ Len(new) <= DateHistory
              /\ new = IF last'.update \/ ~last'.known THEN Arrived(old, date)
                       ELSE Arrived(<<>>, date)
              /\ \A o \in Speakers \ {name} :
                     DatesOf(lib'.embeddings, o) = DatesOf(lib.embeddings, o)]_vars

\* a dated enrolment updated a speaker whose list was full: the oldest date
\* left the list and the new one is its last entry
C24_Witness ==
    /\ last.op = "add_speaker" /\ last.update /\ last.known
    /\ last.args.sample_date # NoneV
    /\ Len(DatesOf(lib.embeddings, last.name)) = DateHistory
    /\ Entry(lib.embeddings, last.name).sample_count > DateHistory
    /\ DatesOf(lib.embeddings, last.name)[DateHistory] = last.args.sample_date
    /\ DatesOf(lib.embeddings, last.name)[1] # LongHistory(DateHistory)[1]

\* an undated enrolment reset a speaker who had a history
C24_WitnessReset ==
    /\ last.op = "add_speaker" /\ ~last.update /\ last.known
    /\ last.args.sample_date = NoneV
    /\ DatesOf(lib.embeddings, last.name) = <<>>

\* the long history is the state two enrolments of a short run reach
LongHistoryReached ==
    /\ db = LongDb(2)
    /\ lib.embeddings = LongLibrary(2)


(* C25: a harvest run that is no dry run reports as samples_added the       *)
(* number of samples it enrolled; a sample whose add_speaker call returned  *)
(* False is counted under skipped and not under samples_added.              *)
C25_FailedSamplesCounted ==
    (batch.pc = "done" /\ ~batch.dry_run) =>
        last.ret.samples_added = Len(db.samples)

\* a run that is no dry run handled a segment whose enrolment failed
C25_FailedSampleSeen ==
    /\ batch.pc = "done" /\ ~batch.dry_run
    /\ last.ret.samples_added > Len(db.samples)

(* C26: a harvest run ends only after the last episode: when the summary is *)
(* printed, a HARVEST_PROGRESS line k/total was printed for every episode   *)
(* k = 1..total in turn, the last one total/total.                          *)
C26_HarvestHandlesEveryEpisode ==
    batch.pc = "done" =>
        batch.progress = [k \in 1..batch.total |-> <<k, batch.total>>]

\* every episode's audio was at its audio_file_path: the run got to the end
HarvestByPath ==
    (batch.pc = "done" /\ batch.ep_idx = batch.total) =>
        batch.progress = [k \in 1..batch.total |-> <<k, batch.total>>]


\* the sample rows and centroid rows of one speaker under one backend
SpeakerRows(d, backend, name) ==
    {r \in SeqToSet(d.samples) \cup SeqToSet(d.centroids) :
        /\ r.speaker_name = name
        /\ d.models[r.backend_model_id].backend = backend}

(* C27: after remove_speaker(name) returned True no sample row and no       *)
(* centroid row of that speaker is left for the library's backend, the      *)
(* speaker is out of the library's map, and rebuild_centroids_from_samples  *)
(* run next writes no centroid for the speaker; when the speaker is not in  *)
(* the library's map the call returns False and changes neither the store   *)
(* nor the map.                                                             *)
C27_RemovalComplete ==
    [][last'.op = "remove_speaker" =>
          IF last'.ret
          THEN /\ HasName(lib.embeddings, last'.name)
               /\ ~HasName(lib'.embeddings, last'.name)
               /\ SpeakerRows(db', lib'.backend, last'.name) = {}
               /\ SpeakerRows(RebuildCentroidsFromSamples(db', lib'.backend, plan')[1],
                              lib'.backend, last'.name) = {}
          ELSE /\ ~HasName(lib.embeddings, last'.name)
               /\ db' = db
               /\ lib' = lib]_vars

\* a speaker was removed from a store that holds samples and centroids
C27_Witness ==
    /\ last.op = "remove_speaker" /\ last.ret
    /\ db.samples # <<>> /\ db.centroids # <<>>
    /\ Len(db.samples) < calls - 1

\* a removal that found no such speaker in a library that holds speakers
C27_WitnessNotFound ==
    /\ last.op = "remove_speaker" /\ ~last.ret
    /\ lib.embeddings # <<>>


\* the speakers of a centroid map with their vectors and sample counts
CentroidView(embeddings) ==
    {[name |-> e.name, embedding |-> e.embedding, sample_count |-> e.sample_count] :
        e \in SeqToSet(embeddings)}

(* C28: after any sequence of add_speaker and remove_speaker calls on one   *)
(* sqlite-backed library, load_centroids for its backend returns exactly     *)
(* the speakers of the library's in-memory map, each with the same vector    *)
(* and sample_count.                                                         *)
C28_PersistedMirrorsMemory ==
    CentroidView(LoadCentroids(db, lib.backend, plan)) = CentroidView(lib.embeddings)

\* the same while every vector had one size: the part of C28 that holds
MirrorsWithoutReset ==
    Len(db.models) <= 1 => C28_PersistedMirrorsMemory


\* the (speaker, sample_type) pairs of a table's rows under one backend
GroupsOf(t, models, backend) ==
    {<<r.speaker_name, r.sample_type>> :
        r \in {x \in SeqToSet(t) : x.backend_model_id \in ActiveModels(models, backend)}}

(* C29: after a successful add_speaker every (speaker, sample_type) that    *)
(* has a stored sample under the library's backend has a stored centroid of *)
(* the same speaker and sample_type, and verify_integrity counts no speaker *)
(* without centroid.                                                        *)
C29_CentroidCoverage ==
    (last.op = "add_speaker" /\ last.ret) =>
        /\ GroupsOf(db.samples, db.models, lib.backend)
              \subseteq GroupsOf(db.centroids, db.models, lib.backend)
        /\ IntegrityReport(db, lib.backend, <<>>, {}).speakers_without_centroid = 0

\* the same for a store whose samples are all of type speaker: the part of
\* C29 that holds
SpeakerSamplesCovered ==
    (\A i \in 1..Len(db.samples) : db.samples[i].sample_type = "speaker")
        => C29_CentroidCoverage


\* the provenance fields of a stored sample row
RowProvenance(d, r) ==
    <<d.models[r.backend_model_id].backend, r.speaker_name, r.sample_type,
      r.file_path, r.episode_id, r.segment_idx, r.start_time, r.end_time,
      r.voice_sample_id>>

\* the provenance fields of the arguments of upsert_sample_embedding
ArgsProvenance(s) ==
    <<s.backend, s.speaker_name, s.sample_type, s.file_path, s.episode_id,
      s.segment_idx, s.start_time, s.end_time, s.voice_sample_id>>

\* a time in whole milliseconds, None kept
ToMs(o) == IF o = <<>> THEN <<>> ELSE <<(o[1] + 5) \div 10>>

\* the provenance fields with the times cut to milliseconds
Coarse(p) == [p EXCEPT ![7] = ToMs(p[7]), ![8] = ToMs(p[8])]

(* C30: an enrolment leaves every stored sample row as it is whose          *)
(* provenance (backend, speaker name, sample_type, file path, episode id,   *)
(* segment index, start time, end time, external sample id) differs from    *)
(* its own in any field: the two have different sample keys.                *)
C30_SampleKeysInjective ==
    [][last'.op = "add_speaker" =>
          \A i \in 1..Len(db.samples) :
              RowProvenance(db, db.samples[i]) # ArgsProvenance(last'.args)
                  => /\ db.samples[i].sample_key # KeyOf(last'.args)
                     /\ db'.samples[i] = db.samples[i]]_vars

\* the same for rows that differ from the enrolment by more than the
\* fraction of a millisecond of a time: the part of C30 that holds
KeysInjectiveToMs ==
    [][last'.op = "add_speaker" =>
          \A i \in 1..Len(db.samples) :
              Coarse(RowProvenance(db, db.samples[i]))
                      # Coarse(ArgsProvenance(last'.args))
                  => /\ db.samples[i].sample_key # KeyOf(last'.args)
                     /\ db'.samples[i] = db.samples[i]]_vars

====
